---------------------------- MODULE Spec2Model ----------------------------
(***************************************************************************)
(* A model of the credit-report auto-fill system: the FileParser           *)
(* (spreadsheet fact extraction, numeric normalisation, multi-file         *)
(* aggregation, business-record parsing) and the TemplateEngine (template  *)
(* analysis and strategy selection).                                       *)
(*                                                                         *)
(* Text is modelled as a sequence of one-character strings, so that        *)
(* String.includes, the regular expressions and parseFloat are computed on *)
(* characters.  A JavaScript number is modelled as an exact decimal        *)
(* [m, e] standing for m / 10^e.                                           *)
(***************************************************************************)
EXTENDS Integers, Sequences, FiniteSets, TLC

VARIABLES
    numIn,      \* parseNumber: the value passed in
    numLit,     \* parseNumber: the numeric literal numIn was formatted from
    numOut,     \* parseNumber: the value returned, or Pending
    workbook,   \* parseExcelFile: the sheets of the workbook, each a cell grid
    result,     \* parseExcelFile: the result object extractFinancialData fills
    cursor,     \* parseExcelFile: the sheet and cell the scan has reached
    files,      \* parseExcelFiles: the files passed in
    allData,    \* parseExcelFiles: the collections being filled
    fileIdx,    \* parseExcelFiles: the file the loop is at
    reading,    \* parseExcelFiles: a parseExcelFile call is awaited
    filesOut,   \* parseExcelFiles: "pending", "resolved" or "rejected"
    financialData,  \* FileParser.financialData
    summary,        \* the object getFinancialSummary returned, or Pending
    ocrResult,      \* parseBusinessInfo: the transcript passed in
    businessInfo,   \* FileParser.businessInfo
    infoOut,        \* the object the last parse call returned, or Pending
    infoGot,        \* the object getBusinessInfo returned, or Pending
    template,       \* the template: the texts of the runs of its document.xml
    templateAnalysis,   \* TemplateEngine.templateAnalysis
    documentXml,    \* TemplateEngine.documentXml
    strategy,       \* generateDocument: the strategy it ran, or "none"
    original,       \* the template package as it was loaded
    zips,           \* the zip objects: the template package, then the clone
    documentData,   \* TemplateEngine.documentData, the Document Context
    generated,      \* what the last generateDocument call returned or threw
    inlineXml,      \* the markup the inline passes of that call left
    uiFiles,        \* UIController.files
    toStep2Disabled,    \* toStep2Btn.disabled
    parser,         \* fileParser: the upload each of its fields was parsed from
    uploads,        \* the files handed to the upload handlers so far
    ocrCalls,       \* handleBusinessUpload: the files whose callOCR is awaited
    generatedDocument,  \* UIController.generatedDocument
    reports,        \* the generateReport calls so far
    lastReport,     \* what the most recent generateReport call produced
    delivered,      \* what downloadReport did since the last report or restart
    fieldAt,        \* generateAllContent: the field the loop is at
    results,        \* generateAllContent: the results object
    inFlight,       \* generateAllContent: the fields whose request is awaited
    requested,      \* generateAllContent: the fields requested so far, in order
    waiting,        \* generateAllContent: what the loop awaits, or "none"
    allOut          \* generateAllContent: what its promise settled to, or Pending

numVars == <<numIn, numLit, numOut>>
exVars == <<workbook, result, cursor>>
filesVars ==
    <<files, allData, fileIdx, reading, filesOut, financialData, summary>>

bizVars == <<ocrResult, businessInfo, infoOut, infoGot>>

tplVars == <<template, templateAnalysis, documentXml, strategy>>

genVars ==
    <<original, zips, documentData, generated, inlineXml>>

uiVars ==
    <<uiFiles, toStep2Disabled, parser, uploads, ocrCalls, generatedDocument,
      reports, lastReport, delivered>>

apiVars == <<fieldAt, results, inFlight, requested, waiting, allOut>>

vars ==
    <<numVars, exVars, filesVars, bizVars, tplVars, genVars, uiVars, apiVars>>

-----------------------------------------------------------------------------
(* JavaScript values *)

Pending == [k |-> "pending"]
Null == [k |-> "null"]
Undefined == [k |-> "undefined"]
NaN == [k |-> "nan"]
NoLit == [k |-> "none"]

Str(s) == [k |-> "str", s |-> s]

RECURSIVE Norm(_, _)
\* the canonical form of the decimal m / 10^e
Norm(m, e) ==
    IF e > 0 /\ m % 10 = 0 THEN Norm(m \div 10, e - 1)
    ELSE [k |-> "num", m |-> m, e |-> e]

Num(n) == Norm(n, 0)

RECURSIVE Pow10(_)
Pow10(n) == IF n = 0 THEN 1 ELSE 10 * Pow10(n - 1)

Max(a, b) == IF a >= b THEN a ELSE b

\* typeof value === 'number' && !isNaN(value)
IsNumber(v) == v.k = "num"

\* JavaScript truthiness of a metric value (a number, a string or undefined)
Truthy(v) ==
    CASE v.k = "num" -> v.m # 0
      [] v.k = "str" -> v.s # <<>>
      [] OTHER -> FALSE

-----------------------------------------------------------------------------
(* FileParser.parseNumber *)

Digits == <<"0", "1", "2", "3", "4", "5", "6", "7", "8", "9">>

IsDigit(c) == \E d \in 1..Len(Digits) : Digits[d] = c

DigitVal(c) == (CHOOSE d \in 1..Len(Digits) : Digits[d] = c) - 1

\* the characters of \s the inputs use
WhiteSpace == {" ", "\t", "\n"}

\* the character class [,，\s元万千百]: "wcomma" is the full-width comma,
\* "yuan", "wan", "qian", "bai" are the unit glyphs 元 万 千 百
FormatChars == {",", "wcomma", "yuan", "wan", "qian", "bai"} \cup WhiteSpace

RECURSIVE RemoveChars(_, _)
\* s.replace(/[class]/g, '')
RemoveChars(s, class) ==
    IF s = <<>> THEN <<>>
    ELSE IF Head(s) \in class THEN RemoveChars(Tail(s), class)
    ELSE <<Head(s)>> \o RemoveChars(Tail(s), class)

RECURSIVE DigitRun(_, _)
\* the number of consecutive digits of s from index i on
DigitRun(s, i) ==
    IF i <= Len(s) /\ IsDigit(s[i]) THEN 1 + DigitRun(s, i + 1) ELSE 0

RECURSIVE SkipWhiteSpace(_, _)
SkipWhiteSpace(s, i) ==
    IF i <= Len(s) /\ s[i] \in WhiteSpace THEN SkipWhiteSpace(s, i + 1) ELSE i

RECURSIVE DigitsValue(_)
\* the natural number written by a sequence of digits
DigitsValue(ds) ==
    IF ds = <<>> THEN 0
    ELSE 10 * DigitsValue(SubSeq(ds, 1, Len(ds) - 1)) + DigitVal(ds[Len(ds)])

\* parseFloat: the longest prefix, after leading white space, that is a
\* decimal literal (sign, digits, fraction); NaN when there is none.  The
\* exponent and Infinity forms need letters the inputs do not contain.
parseFloat(s) ==
    LET Decimal(neg, i1, n1, n2) ==
            \* n1 integer digits from index i1 on, n2 fraction digits
            IF n1 = 0 /\ n2 = 0 THEN NaN
            ELSE Norm((IF neg THEN -1 ELSE 1)
                          * DigitsValue(SubSeq(s, i1, i1 + n1 - 1)
                                        \o SubSeq(s, i1 + n1 + 1, i1 + n1 + n2)),
                      n2)
        Fraction(neg, i1, n1) ==
            Decimal(neg, i1, n1,
                    IF i1 + n1 <= Len(s) /\ s[i1 + n1] = "."
                    THEN DigitRun(s, i1 + n1 + 1) ELSE 0)
        Unsigned(neg, i1) == Fraction(neg, i1, DigitRun(s, i1))
        Signed(i0) ==
            IF i0 <= Len(s) /\ s[i0] \in {"+", "-"}
            THEN Unsigned(s[i0] = "-", i0 + 1)
            ELSE Unsigned(FALSE, i0)
    IN  Signed(SkipWhiteSpace(s, 1))

\* if (!isNaN(num)) return num; ... return null
NumberOrNull(num) == IF num # NaN THEN num ELSE Null

\* a bug parseNumber could have: the full-width comma is not stripped
parseNumberNoWideComma(value) ==
    IF value = Null \/ value = Undefined \/ value = Str(<<>>) THEN Null
    ELSE IF IsNumber(value) THEN value
    ELSE IF value.k = "str"
         THEN NumberOrNull(parseFloat(RemoveChars(value.s, FormatChars \ {"wcomma"})))
    ELSE Null

parseNumber(value) ==
    IF value = Null \/ value = Undefined \/ value = Str(<<>>) THEN Null
    ELSE IF IsNumber(value) THEN value
    ELSE IF value.k = "str"
         THEN NumberOrNull(parseFloat(RemoveChars(value.s, FormatChars)))
    ELSE Null

-----------------------------------------------------------------------------
(* Inputs of parseNumber: numeric literals with formatting inserted *)

MaxIntDigits == 2
MaxFracDigits == 1
MaxInserted == 1

LitDigits == {"0", "7"}

SeqsUpTo(S, lo, hi) == UNION {[1..n -> S] : n \in lo..hi}

\* a decimal literal: sign, integer digits, fraction digits
Literals ==
    [neg : BOOLEAN, int : SeqsUpTo(LitDigits, 1, MaxIntDigits),
     frac : SeqsUpTo(LitDigits, 0, MaxFracDigits)]

LiteralText(l) ==
    (IF l.neg THEN <<"-">> ELSE <<>>) \o l.int
        \o (IF l.frac = <<>> THEN <<>> ELSE <<".">> \o l.frac)

\* the value the literal denotes, from its parts
LiteralValue(l) ==
    LET mag == DigitsValue(l.int) * Pow10(Len(l.frac)) + DigitsValue(l.frac)
    IN  Norm(IF l.neg THEN 0 - mag ELSE mag, Len(l.frac))

InsertAt(s, p, c) == SubSeq(s, 1, p) \o <<c>> \o SubSeq(s, p + 1, Len(s))

RECURSIVE Formatted(_, _)
\* the strings got from s by inserting at most n formatting characters
Formatted(s, n) ==
    IF n = 0 THEN {s}
    ELSE LET prev == Formatted(s, n - 1)
         IN  prev \cup UNION {{InsertAt(t, p, c) :
                                   p \in 0..Len(t), c \in FormatChars \ {"\t", "\n"}} :
                               t \in prev}

NumberInputs == {Num(0), Num(1500), Norm(-25, 1), NaN}

NumInit ==
    /\ numOut = Pending
    /\ \/ /\ numLit \in Literals
          /\ numIn \in {Str(s) : s \in Formatted(LiteralText(numLit), MaxInserted)}
       \/ /\ numLit = NoLit
          /\ numIn \in {Null, Undefined, Str(<<>>), Str(<<" ">>), Str(<<"yuan">>),
                        Str(<<"-">>), Str(<<".">>)} \cup NumberInputs

NumIdle == numIn = Null /\ numLit = NoLit /\ numOut = Pending

CallParseNumber ==
    /\ numOut = Pending
    /\ numOut' = parseNumber(numIn)
    /\ UNCHANGED <<numIn, numLit, exVars, filesVars, bizVars, tplVars, genVars, uiVars, apiVars>>

-----------------------------------------------------------------------------
(* Text helpers *)

\* s.includes(t)
Includes(s, t) ==
    \E i \in 0..(Len(s) - Len(t)) : SubSeq(s, i + 1, i + Len(t)) = t

RECURSIVE TrimStart(_)
TrimStart(s) ==
    IF s # <<>> /\ Head(s) \in WhiteSpace THEN TrimStart(Tail(s)) ELSE s

RECURSIVE TrimEnd(_)
TrimEnd(s) ==
    IF s # <<>> /\ s[Len(s)] \in WhiteSpace THEN TrimEnd(SubSeq(s, 1, Len(s) - 1))
    ELSE s

\* s.trim()
Trim(s) == TrimEnd(TrimStart(s))

RECURSIVE NatText(_)
\* the decimal digits of a natural number
NatText(n) ==
    IF n < 10 THEN <<Digits[n + 1]>>
    ELSE NatText(n \div 10) \o <<Digits[(n % 10) + 1]>>

Abs(n) == IF n < 0 THEN 0 - n ELSE n

RECURSIVE PadLeft(_, _)
PadLeft(s, n) == IF Len(s) >= n THEN s ELSE PadLeft(<<"0">> \o s, n)

\* String(v) of a number
NumberText(v) ==
    (IF v.m < 0 THEN <<"-">> ELSE <<>>)
        \o NatText(Abs(v.m) \div Pow10(v.e))
        \o (IF v.e = 0 THEN <<>>
            ELSE <<".">> \o PadLeft(NatText(Abs(v.m) % Pow10(v.e)), v.e))

\* String(v || '')
TextOf(v) ==
    IF ~Truthy(v) THEN <<>>
    ELSE IF v.k = "num" THEN NumberText(v)
    ELSE v.s

\* a - b
Minus(a, b) ==
    LET Aligned(E) == Norm(a.m * Pow10(E - a.e) - b.m * Pow10(E - b.e), E)
    IN  Aligned(Max(a.e, b.e))

\* (a / b * scale).toFixed(2): the quotient rounded to two decimals, as text
ToFixed2(a, b, scale) ==
    LET Text(neg, q) ==
            Str((IF neg THEN <<"-">> ELSE <<>>) \o NatText(q \div 100) \o <<".">>
                    \o PadLeft(NatText(q % 100), 2))
        \* the quotient N / D in hundredths, halves rounded away from zero
        Rounded(N, D) ==
            Text(N # 0 /\ ((N < 0) # (D < 0)),
                 (2 * Abs(N) + Abs(D)) \div (2 * Abs(D)))
    IN  Rounded(a.m * Pow10(b.e) * scale * 100, b.m * Pow10(a.e))

-----------------------------------------------------------------------------
(* FileParser.extractFinancialData *)

\* The labels are written one string per character:
\*  资 zi, 产 chan, 总 zong, 计 ji, 额 e, 合 he, 数 shu, 负 fu, 债 zhai, 所 suo,
\*  有 you, 者 zhe, 权 quan, 益 yi, 股 gu, 东 dong, 净 jing, 实 shi, 收 shou,
\*  本 ben, 流 liu, 动 dong4, 存 cun, 货 huo, 应 ying, 账 zhang, 款 kuan, 币 bi,
\*  金 jin, 营 ying2, 业 ye, 入 ru, 主 zhu, 务 wu, 销 xiao, 售 shou4, 利 li,
\*  润 run, 成 cheng, 费 fei, 用 yong, 管 guan, 理 li3, 财 cai

balanceSheetTerms == <<
    [term |-> <<"zi", "chan", "zong", "ji">>, key |-> "totalAssets"],   \* 资产总计
    [term |-> <<"zi", "chan", "zong", "e">>, key |-> "totalAssets"],   \* 资产总额
    [term |-> <<"zi", "chan", "he", "ji">>, key |-> "totalAssets"],   \* 资产合计
    [term |-> <<"zi", "chan", "zong", "shu">>, key |-> "totalAssets"],   \* 资产总数
    [term |-> <<"zong", "zi", "chan">>, key |-> "totalAssets"],   \* 总资产
    [term |-> <<"fu", "zhai", "zong", "ji">>, key |-> "totalLiabilities"],   \* 负债总计
    [term |-> <<"fu", "zhai", "zong", "e">>, key |-> "totalLiabilities"],   \* 负债总额
    [term |-> <<"fu", "zhai", "he", "ji">>, key |-> "totalLiabilities"],   \* 负债合计
    [term |-> <<"zong", "fu", "zhai">>, key |-> "totalLiabilities"],   \* 总负债
    [term |-> <<"suo", "you", "zhe", "quan", "yi", "he", "ji">>, key |-> "ownerEquity"],   \* 所有者权益合计
    [term |-> <<"suo", "you", "zhe", "quan", "yi">>, key |-> "ownerEquity"],   \* 所有者权益
    [term |-> <<"gu", "dong", "quan", "yi", "he", "ji">>, key |-> "ownerEquity"],   \* 股东权益合计
    [term |-> <<"gu", "dong", "quan", "yi">>, key |-> "ownerEquity"],   \* 股东权益
    [term |-> <<"jing", "zi", "chan">>, key |-> "ownerEquity"],   \* 净资产
    [term |-> <<"shi", "shou", "zi", "ben">>, key |-> "paidInCapital"],   \* 实收资本
    [term |-> <<"liu", "dong4", "zi", "chan", "he", "ji">>, key |-> "currentAssets"],   \* 流动资产合计
    [term |-> <<"liu", "dong4", "zi", "chan">>, key |-> "currentAssets"],   \* 流动资产
    [term |-> <<"liu", "dong4", "fu", "zhai", "he", "ji">>, key |-> "currentLiabilities"],   \* 流动负债合计
    [term |-> <<"liu", "dong4", "fu", "zhai">>, key |-> "currentLiabilities"],   \* 流动负债
    [term |-> <<"cun", "huo">>, key |-> "inventory"],   \* 存货
    [term |-> <<"ying", "shou", "zhang", "kuan">>, key |-> "accountsReceivable"],   \* 应收账款
    [term |-> <<"huo", "bi", "zi", "jin">>, key |-> "cashAndEquivalents"]   \* 货币资金
>>

incomeTerms == <<
    [term |-> <<"ying2", "ye", "shou", "ru">>, key |-> "revenue"],   \* 营业收入
    [term |-> <<"zhu", "ying2", "ye", "wu", "shou", "ru">>, key |-> "revenue"],   \* 主营业务收入
    [term |-> <<"ying2", "ye", "zong", "shou", "ru">>, key |-> "revenue"],   \* 营业总收入
    [term |-> <<"xiao", "shou4", "shou", "ru">>, key |-> "revenue"],   \* 销售收入
    [term |-> <<"jing", "li", "run">>, key |-> "netProfit"],   \* 净利润
    [term |-> <<"li", "run", "zong", "e">>, key |-> "totalProfit"],   \* 利润总额
    [term |-> <<"ying2", "ye", "li", "run">>, key |-> "operatingProfit"],   \* 营业利润
    [term |-> <<"ying2", "ye", "cheng", "ben">>, key |-> "operatingCost"],   \* 营业成本
    [term |-> <<"zhu", "ying2", "ye", "wu", "cheng", "ben">>, key |-> "operatingCost"],   \* 主营业务成本
    [term |-> <<"xiao", "shou4", "fei", "yong">>, key |-> "sellingExpenses"],   \* 销售费用
    [term |-> <<"guan", "li3", "fei", "yong">>, key |-> "adminExpenses"],   \* 管理费用
    [term |-> <<"cai", "wu", "fei", "yong">>, key |-> "financialExpenses"]   \* 财务费用
>>

BalanceKeys ==
    {balanceSheetTerms[t].key : t \in 1..Len(balanceSheetTerms)}
        \cup {"debtRatio", "currentRatio", "quickRatio", "roe"}

IncomeKeys == {incomeTerms[t].key : t \in 1..Len(incomeTerms)}

\* result as parseExcelFile creates it: no key is set
EmptyResult ==
    [balanceSheet |-> [k \in BalanceKeys |-> Undefined],
     incomeStatement |-> [k \in IncomeKeys |-> Undefined]]

\* a search that stops at the first cell that parses to a number, 0 or not
FirstNumberOrZero(row, from) ==
    LET Found(value) == value # Null
        First(parsed) ==
            IF \A j \in from..Len(row) : ~Found(parsed[j]) THEN Undefined
            ELSE parsed[CHOOSE j \in from..Len(row) :
                            /\ Found(parsed[j])
                            /\ \A h \in from..(j - 1) : ~Found(parsed[h])]
    IN  First([j \in 1..Len(row) |-> parseNumber(row[j])])

\* the first cell of row, from index from on, that parses to a non-zero
\* number; Undefined when there is none
FirstNumber(row, from) ==
    LET Found(value) == value # Null /\ value # Num(0)
        First(parsed) ==
            IF \A j \in from..Len(row) : ~Found(parsed[j]) THEN Undefined
            ELSE parsed[CHOOSE j \in from..Len(row) :
                            /\ Found(parsed[j])
                            /\ \A h \in from..(j - 1) : ~Found(parsed[h])]
    IN  First([j \in 1..Len(row) |-> parseNumber(row[j])])

\* rec[key] = value for the value a search found; rec when it found none
SetIfFound(rec, key, value) ==
    IF value # Undefined THEN [rec EXCEPT ![key] = value] ELSE rec

\* "If not found to the right, check the row below"
SearchNextRow(rec, key, sheetData, i) ==
    IF ~Truthy(rec[key]) /\ i + 1 <= Len(sheetData)
    THEN SetIfFound(rec, key, FirstNumber(sheetData[i + 1], 1))
    ELSE rec

\* a bug the label match could have: the key is written although it is set
MatchTermOverwrite(rec, t, cellValue, sheetData, i, col) ==
    IF Includes(cellValue, t.term)
    THEN SetIfFound(rec, t.key, FirstNumber(sheetData[i], col + 1))
    ELSE rec

\* one dictionary entry tried on the cell (i, col): the body of the loop over
\* Object.entries(balanceSheetTerms), and of the one over incomeTerms
MatchTerm(rec, t, cellValue, sheetData, i, col) ==
    IF Includes(cellValue, t.term) /\ ~Truthy(rec[t.key])
    THEN SearchNextRow(SetIfFound(rec, t.key, FirstNumber(sheetData[i], col + 1)),
                       t.key, sheetData, i)
    ELSE rec

RECURSIVE MatchTerms(_, _, _, _, _, _, _)
\* the dictionary entries n.. tried in insertion order
MatchTerms(rec, terms, n, cellValue, sheetData, i, col) ==
    IF n > Len(terms) THEN rec
    ELSE MatchTerms(MatchTerm(rec, terms[n], cellValue, sheetData, i, col),
                    terms, n + 1, cellValue, sheetData, i, col)

\* the body of the loop over the cells of a row, for the cell (i, col)
ScanCell(res, sheetData, i, col) ==
    LET Labels(cellValue) ==
            IF cellValue = <<>> THEN res
            ELSE [balanceSheet |->
                      MatchTerms(res.balanceSheet, balanceSheetTerms, 1,
                                 cellValue, sheetData, i, col),
                  incomeStatement |->
                      MatchTerms(res.incomeStatement, incomeTerms, 1,
                                 cellValue, sheetData, i, col)]
    IN  Labels(Trim(TextOf(sheetData[i][col])))

\* "Calculate derived metrics", the statements after the scan, in order
WithDebtRatio(bs) ==
    IF Truthy(bs["totalAssets"]) /\ Truthy(bs["totalLiabilities"])
    THEN [bs EXCEPT !["debtRatio"] =
             ToFixed2(bs["totalLiabilities"], bs["totalAssets"], 100)]
    ELSE bs

WithCurrentRatios(bs) ==
    IF Truthy(bs["currentAssets"]) /\ Truthy(bs["currentLiabilities"])
    THEN [bs EXCEPT
             !["currentRatio"] =
                 ToFixed2(bs["currentAssets"], bs["currentLiabilities"], 1),
             !["quickRatio"] =
                 \* quickAssets = currentAssets - (inventory || 0)
                 ToFixed2(Minus(bs["currentAssets"],
                                IF Truthy(bs["inventory"]) THEN bs["inventory"]
                                ELSE Num(0)),
                          bs["currentLiabilities"], 1)]
    ELSE bs

WithRoe(bs, inc) ==
    IF Truthy(inc["netProfit"]) /\ Truthy(bs["ownerEquity"])
    THEN [bs EXCEPT !["roe"] = ToFixed2(inc["netProfit"], bs["ownerEquity"], 100)]
    ELSE bs

\* "Calculate owner equity if we have assets and liabilities but not equity"
WithOwnerEquity(bs) ==
    IF /\ Truthy(bs["totalAssets"])
       /\ Truthy(bs["totalLiabilities"])
       /\ ~Truthy(bs["ownerEquity"])
    THEN [bs EXCEPT !["ownerEquity"] =
             Minus(bs["totalAssets"], bs["totalLiabilities"])]
    ELSE bs

DeriveMetrics(res) ==
    [balanceSheet |->
         WithOwnerEquity(
             WithRoe(WithCurrentRatios(WithDebtRatio(res.balanceSheet)),
                     res.incomeStatement)),
     incomeStatement |-> res.incomeStatement]

\* the cells of a sheet in scan order: rows top to bottom (an empty row has
\* none), cells left to right
RECURSIVE CellsFrom(_, _, _)
CellsFrom(sheetData, i, col) ==
    IF i > Len(sheetData) THEN <<>>
    ELSE IF col > Len(sheetData[i]) THEN CellsFrom(sheetData, i + 1, 1)
    ELSE <<[i |-> i, col |-> col]>> \o CellsFrom(sheetData, i, col + 1)

RECURSIVE ScanCells(_, _, _, _)
\* the loops over rows and cells, from the n-th cell on (the result of a cell
\* is bound as a value before the next cell is scanned)
ScanCells(res, sheetData, cells, n) ==
    IF n > Len(cells) THEN res
    ELSE CHOOSE out \in {ScanCells(r, sheetData, cells, n + 1) :
                            r \in {ScanCell(res, sheetData, cells[n].i, cells[n].col)}} :
             TRUE

\* extractFinancialData(sheetData, result): the result object after the call
extractFinancialData(sheetData, res) ==
    DeriveMetrics(ScanCells(res, sheetData, CellsFrom(sheetData, 1, 1), 1))

RECURSIVE ExtractSheets(_, _, _)
\* workbook.SheetNames.forEach(...) of parseExcelFile, from sheet n on
ExtractSheets(sheets, n, res) ==
    IF n > Len(sheets) THEN res
    ELSE CHOOSE out \in {ExtractSheets(sheets, n + 1, r) :
                            r \in {extractFinancialData(sheets[n], res)}} : TRUE

-----------------------------------------------------------------------------
(* FileParser.parseExcelFile: the sheets of one workbook, cell by cell *)

MaxItems == 4

Label(term) == Str(term)

\* rows of financial statements, as XLSX.utils.sheet_to_json(sheet, {header: 1})
\* gives them
RowPool == {
    <<Label(<<"zi", "chan", "zong", "ji">>), Num(1000)>>,
    <<Label(<<"zong", "zi", "chan">>), Str(<<"2", ",", "0", "0", "0", "yuan">>)>>,
    <<Label(<<"fu", "zhai", "he", "ji">>), Num(0), Num(600)>>,
    <<Label(<<"fu", "zhai", "zong", "ji">>)>>,
    <<Label(<<"suo", "you", "zhe", "quan", "yi", "he", "ji">>), Num(500)>>,
    <<Label(<<"jing", "li", "run">>), Num(50)>>,
    <<Label(<<"liu", "dong4", "zi", "chan", "he", "ji">>), Num(300),
      Label(<<"liu", "dong4", "fu", "zhai", "he", "ji">>), Num(200)>>
}

SheetBreak == <<Str(<<"sheet">>)>>

RECURSIVE SplitSheets(_)
\* the sheets of a workbook written as its rows with SheetBreak between sheets
SplitSheets(items) ==
    IF \A n \in 1..Len(items) : items[n] # SheetBreak THEN <<items>>
    ELSE LET b == CHOOSE n \in 1..Len(items) :
                      /\ items[n] = SheetBreak
                      /\ \A m \in 1..(n - 1) : items[m] # SheetBreak
         IN  <<SubSeq(items, 1, b - 1)>>
                 \o SplitSheets(SubSeq(items, b + 1, Len(items)))

Workbooks ==
    {SplitSheets(items) : items \in SeqsUpTo(RowPool \cup {SheetBreak}, 0, MaxItems)}

ExInit ==
    /\ workbook \in Workbooks
    /\ result = EmptyResult
    /\ cursor = [phase |-> "scan", sheet |-> 1, cell |-> 1]

ExIdle ==
    /\ workbook = <<>>
    /\ result = EmptyResult
    /\ cursor = [phase |-> "idle", sheet |-> 1, cell |-> 1]

CurrentCells == CellsFrom(workbook[cursor.sheet], 1, 1)

\* one iteration of the cell loop of extractFinancialData
ScanCellStep ==
    /\ cursor.phase = "scan"
    /\ cursor.cell <= Len(CurrentCells)
    /\ \E c \in {CurrentCells[cursor.cell]} :
           result' = ScanCell(result, workbook[cursor.sheet], c.i, c.col)
    /\ cursor' = [cursor EXCEPT !.cell = @ + 1]
    /\ UNCHANGED <<workbook, numVars, filesVars, bizVars, tplVars, genVars, uiVars, apiVars>>

\* the end of extractFinancialData for the current sheet: the derived
\* metrics; then the next sheet, or resolve(result) after the last one
DeriveStep ==
    /\ cursor.phase = "scan"
    /\ cursor.cell > Len(CurrentCells)
    /\ result' = DeriveMetrics(result)
    /\ cursor' = IF cursor.sheet < Len(workbook)
                 THEN [phase |-> "scan", sheet |-> cursor.sheet + 1, cell |-> 1]
                 ELSE [cursor EXCEPT !.phase = "done"]
    /\ UNCHANGED <<workbook, numVars, filesVars, bizVars, tplVars, genVars, uiVars, apiVars>>

-----------------------------------------------------------------------------
(* FileParser.parseExcelFiles *)

\* the index of the first run of four digits of fileName, 0 when there is
\* none: fileName.match(/(\d{4})/)
FirstFourDigits(fileName) ==
    LET Starts == {p \in 1..(Len(fileName) - 3) : DigitRun(fileName, p) >= 4}
    IN  IF Starts = {} THEN 0
        ELSE CHOOSE p \in Starts : \A q \in Starts : p <= q

extractYearFromFileName(fileName) ==
    LET Year(p) ==
            IF p = 0 THEN Null
            ELSE Num(DigitsValue(SubSeq(fileName, p, p + 3)))   \* parseInt(match[1])
    IN  Year(FirstFourDigits(fileName))

\* (a.year || 0), the sort key of an entry
YearOrZero(entry) == IF Truthy(entry.year) THEN entry.year.m ELSE 0

RECURSIVE InsertByYear(_, _)
\* entry put into a sorted list after the entries that do not compare greater
InsertByYear(sorted, entry) ==
    IF sorted = <<>> THEN <<entry>>
    ELSE IF YearOrZero(Head(sorted)) - YearOrZero(entry) <= 0
    THEN <<Head(sorted)>> \o InsertByYear(Tail(sorted), entry)
    ELSE <<entry>> \o sorted

RECURSIVE SortFrom(_, _, _)
SortFrom(sorted, entries, n) ==
    IF n > Len(entries) THEN sorted
    ELSE SortFrom(InsertByYear(sorted, entries[n]), entries, n + 1)

\* a bug the aggregation could have: the collections are left in file order
SortByYearMissing(entries) == entries

\* entries.sort((a, b) => (a.year || 0) - (b.year || 0)); Array.prototype.sort
\* is stable
SortByYear(entries) == SortFrom(<<>>, entries, 1)

\* what parseExcelFile resolves with for a readable workbook (result.sheets,
\* the raw grids, is read by nothing and left out)
ParsedFile(file) ==
    LET Data(res) ==
            [year |-> extractYearFromFileName(file.name),
             balanceSheet |-> res.balanceSheet,
             incomeStatement |-> res.incomeStatement]
    IN  Data(ExtractSheets(file.sheets, 1, EmptyResult))

\* { year: data.year, ...data.balanceSheet }
BalanceEntry(data) == [year |-> data.year, metrics |-> data.balanceSheet]

\* { year: data.year, ...data.incomeStatement }
IncomeEntry(data) == [year |-> data.year, metrics |-> data.incomeStatement]

\* a bug the merge could have: an entry only for a statement of which a metric
\* was extracted
MergeFileWithMetrics(all, data) ==
    LET Extracted(metrics) == \E key \in DOMAIN metrics : metrics[key] # Undefined
    IN  [balanceSheet |->
             IF Extracted(data.balanceSheet)
             THEN Append(all.balanceSheet, BalanceEntry(data))
             ELSE all.balanceSheet,
         incomeStatement |->
             IF Extracted(data.incomeStatement)
             THEN Append(all.incomeStatement, IncomeEntry(data))
             ELSE all.incomeStatement,
         cashFlow |-> all.cashFlow,
         rawData |->
             IF Truthy(data.year)
             THEN [y \in DOMAIN all.rawData \cup {data.year.m} |->
                      IF y = data.year.m THEN data ELSE all.rawData[y]]
             ELSE all.rawData]

\* the body of the try block of parseExcelFiles after the await
MergeFile(all, data) ==
    [balanceSheet |-> Append(all.balanceSheet, BalanceEntry(data)),
     incomeStatement |-> Append(all.incomeStatement, IncomeEntry(data)),
     cashFlow |-> all.cashFlow,
     rawData |->
         IF Truthy(data.year)
         THEN [y \in DOMAIN all.rawData \cup {data.year.m} |->
                  IF y = data.year.m THEN data ELSE all.rawData[y]]
         ELSE all.rawData]

EmptyAllData ==
    [balanceSheet |-> <<>>, incomeStatement |-> <<>>, cashFlow |-> <<>>,
     rawData |-> <<>>]

MaxFiles == 2

FileNames == {
    <<"b", "s">>,
    <<"2", "0", "2", "3">>,
    <<"a", "2", "0", "2", "1", "2">>,
    <<"0", "0", "0", "0", "b">>
}

\* what reading a file leads to: the workbook is parsed, reader.onerror
\* fires, or XLSX.read throws in reader.onload
Fates == {"ok", "unreadable", "corrupt"}

FileSheets == {
    <<<< <<Label(<<"zi", "chan", "zong", "ji">>), Num(1000)>>,
         <<Label(<<"fu", "zhai", "he", "ji">>), Num(0), Num(600)>> >>>>,
    <<<< <<Label(<<"jing", "li", "run">>), Num(50)>> >>>>
}

\* XLSX.read yields a workbook only for a file whose reading succeeds
Files ==
    [name : FileNames, fate : {"ok"}, sheets : FileSheets]
        \cup [name : FileNames, fate : Fates \ {"ok"}, sheets : {<<>>}]

FilesInit ==
    /\ files \in SeqsUpTo(Files, 0, MaxFiles)
    /\ allData = EmptyAllData
    /\ fileIdx = 1
    /\ reading = FALSE
    /\ filesOut = "pending"
    /\ financialData = Null
    /\ summary = Pending

FilesIdle ==
    /\ files = <<>>
    /\ allData = EmptyAllData
    /\ fileIdx = 1
    /\ reading = FALSE
    /\ filesOut = "idle"
    /\ financialData = Null
    /\ summary = Pending

\* for (const file of files): parseExcelFile(file) starts reading the next file
StartFile ==
    /\ filesOut = "pending"
    /\ ~reading
    /\ fileIdx <= Len(files)
    /\ reading' = TRUE
    /\ UNCHANGED <<files, allData, fileIdx, filesOut, financialData, summary>>
    /\ UNCHANGED <<numVars, exVars, bizVars, tplVars, genVars, uiVars, apiVars>>

\* reader.onload resolves: the data of the file is merged
FileParsed ==
    /\ reading
    /\ files[fileIdx].fate = "ok"
    /\ allData' = MergeFile(allData, ParsedFile(files[fileIdx]))
    /\ fileIdx' = fileIdx + 1
    /\ reading' = FALSE
    /\ UNCHANGED <<files, filesOut, financialData, summary>>
    /\ UNCHANGED <<numVars, exVars, bizVars, tplVars, genVars, uiVars, apiVars>>

\* a bug the loop could have: a failed file aborts the batch
FileFailedAborts ==
    /\ reading
    /\ files[fileIdx].fate \in {"unreadable", "corrupt"}
    /\ filesOut' = "rejected"
    /\ reading' = FALSE
    /\ UNCHANGED <<files, allData, fileIdx, financialData, summary>>
    /\ UNCHANGED <<numVars, exVars, bizVars, tplVars, genVars, uiVars, apiVars>>

\* parseExcelFile rejects (reader.onerror, or the catch in reader.onload); the
\* catch of parseExcelFiles logs it and the loop goes on
FileFailed ==
    /\ reading
    /\ files[fileIdx].fate \in {"unreadable", "corrupt"}
    /\ fileIdx' = fileIdx + 1
    /\ reading' = FALSE
    /\ UNCHANGED <<files, allData, filesOut, financialData, summary>>
    /\ UNCHANGED <<numVars, exVars, bizVars, tplVars, genVars, uiVars, apiVars>>

\* after the loop: both collections sorted, this.financialData set, allData
\* returned
FinishFiles ==
    /\ filesOut = "pending"
    /\ ~reading
    /\ fileIdx > Len(files)
    /\ allData' = [allData EXCEPT
                      !.balanceSheet = SortByYear(allData.balanceSheet),
                      !.incomeStatement = SortByYear(allData.incomeStatement)]
    /\ financialData' = allData'
    /\ filesOut' = "resolved"
    /\ UNCHANGED <<files, fileIdx, reading, summary>>
    /\ UNCHANGED <<numVars, exVars, bizVars, tplVars, genVars, uiVars, apiVars>>

Min(S) == CHOOSE x \in S : \A y \in S : x <= y

MaxOf(S) == CHOOSE x \in S : \A y \in S : x >= y

\* the summary keys set from a balance sheet entry, with the metric each holds
EndFields == {
    <<"totalAssetsEnd", "totalAssets">>,
    <<"totalLiabilitiesEnd", "totalLiabilities">>,
    <<"ownerEquityEnd", "ownerEquity">>,
    <<"debtRatioEnd", "debtRatio">>,
    <<"currentRatioEnd", "currentRatio">>,
    <<"quickRatioEnd", "quickRatio">>
}

BeginningFields == {
    <<"totalAssetsBeginning", "totalAssets">>,
    <<"totalLiabilitiesBeginning", "totalLiabilities">>,
    <<"ownerEquityBeginning", "ownerEquity">>,
    <<"debtRatioBeginning", "debtRatio">>,
    <<"currentRatioBeginning", "currentRatio">>,
    <<"quickRatioBeginning", "quickRatio">>
}

\* the Beginning keys the rawData branch sets
RawBeginningFields ==
    {f \in BeginningFields : f[2] \notin {"currentRatio", "quickRatio"}}

LastYearFields == {
    <<"totalAssetsLastYear", "totalAssets">>,
    <<"totalLiabilitiesLastYear", "totalLiabilities">>,
    <<"ownerEquityLastYear", "ownerEquity">>,
    <<"debtRatioLastYear", "debtRatio">>,
    <<"currentRatioLastYear", "currentRatio">>,
    <<"quickRatioLastYear", "quickRatio">>
}

CurrentFields == {<<"revenueCurrent", "revenue">>, <<"netProfitCurrent", "netProfit">>}

IncomeLastYearFields ==
    {<<"revenueLastYear", "revenue">>, <<"netProfitLastYear", "netProfit">>}

\* summary.<f[1]> = metrics.<f[2]> for every f of fields
Assigned(fields, metrics) ==
    [key \in {f[1] : f \in fields} |->
        metrics[(CHOOSE f \in fields : f[1] = key)[2]]]

NoFields == [key \in {} |-> Undefined]

\* the branch that reads rawData: the two greatest years of its keys
SummaryFromRawData(rawData) ==
    LET years == DOMAIN rawData
        latestYear == MaxOf(years)
        Previous(prevYears) ==
            IF prevYears = {} THEN NoFields
            ELSE Assigned(RawBeginningFields, rawData[MaxOf(prevYears)].balanceSheet)
                     @@ Assigned(IncomeLastYearFields,
                                 rawData[MaxOf(prevYears)].incomeStatement)
    IN  Assigned(EndFields, rawData[latestYear].balanceSheet)
            @@ Assigned(CurrentFields, rawData[latestYear].incomeStatement)
            @@ Previous(years \ {latestYear})

\* the keys set from the balanceSheet collection
SummaryOfBalance(balanceSheet) ==
    LET n == Len(balanceSheet)
        lastYear == IF n > 2 THEN n - 2 ELSE n - 1
    IN  IF n = 0 THEN NoFields
        ELSE Assigned(EndFields, balanceSheet[n].metrics)
                 @@ (IF n > 1
                     THEN Assigned(BeginningFields, balanceSheet[n - 1].metrics)
                              @@ Assigned(LastYearFields, balanceSheet[lastYear].metrics)
                     ELSE NoFields)

\* the keys set from the incomeStatement collection
SummaryOfIncome(incomeStatement) ==
    LET n == Len(incomeStatement)
    IN  IF n = 0 THEN NoFields
        ELSE Assigned(CurrentFields, incomeStatement[n].metrics)
                 @@ (IF n > 1
                     THEN Assigned(IncomeLastYearFields, incomeStatement[n - 1].metrics)
                     ELSE NoFields)

\* a bug the summary could have: the current period read from the first entry
getFinancialSummaryFirstEntry(data) ==
    IF data = Null THEN NoFields
    ELSE SummaryOfBalance(
             IF data.balanceSheet = <<>> THEN <<>>
             ELSE Tail(data.balanceSheet) \o <<Head(data.balanceSheet)>>)
             @@ SummaryOfIncome(data.incomeStatement)

\* FileParser.getFinancialSummary: the summary object, a function of the keys
\* it sets
getFinancialSummary(data) ==
    IF data = Null THEN NoFields
    ELSE IF Len(data.balanceSheet) = 0 /\ DOMAIN data.rawData # {}
    THEN SummaryFromRawData(data.rawData)
    ELSE SummaryOfBalance(data.balanceSheet) @@ SummaryOfIncome(data.incomeStatement)

\* getFinancialSummary() is called
CallGetFinancialSummary ==
    /\ filesOut \in {"pending", "resolved"}
    /\ summary = Pending
    /\ summary' = getFinancialSummary(financialData)
    /\ UNCHANGED <<files, allData, fileIdx, reading, filesOut, financialData>>
    /\ UNCHANGED <<numVars, exVars, bizVars, tplVars, genVars, uiVars, apiVars>>


-----------------------------------------------------------------------------
(* getFinancialSummary on the result of parseExcelFiles for up to three files
   that name a year and state their total assets and their net profit *)

MaxParsed == 3

RECURSIVE MergeFiles(_, _, _)
\* the loop of parseExcelFiles from the n-th file on
MergeFiles(all, fs, n) ==
    IF n > Len(fs) THEN all
    ELSE MergeFiles(IF fs[n].fate = "ok" THEN MergeFile(all, ParsedFile(fs[n]))
                    ELSE all,
                    fs, n + 1)

\* what parseExcelFiles(fs) stores in this.financialData and returns
parseExcelFiles(fs) ==
    [MergeFiles(EmptyAllData, fs, 1) EXCEPT
        !.balanceSheet = SortByYear(@),
        !.incomeStatement = SortByYear(@)]

\* a sheet that states the total assets and the net profit as amount
StatementSheets(amount) ==
    <<<< <<Label(<<"zi", "chan", "zong", "ji">>), Num(amount)>>,
         <<Label(<<"jing", "li", "run">>), Num(amount)>> >>>>

YearFiles ==
    [name : {<<"2", "0", "2", "1">>, <<"2", "0", "2", "2">>, <<"2", "0", "2", "3">>},
     fate : {"ok"},
     sheets : {StatementSheets(100), StatementSheets(200), StatementSheets(300)}]

\* parseExcelFiles has resolved for the files
ParsedInit ==
    /\ files \in SeqsUpTo(YearFiles, 0, MaxParsed)
    /\ allData = parseExcelFiles(files)
    /\ fileIdx = Len(files) + 1
    /\ reading = FALSE
    /\ filesOut = "resolved"
    /\ financialData = allData
    /\ summary = Pending

-----------------------------------------------------------------------------
(* FileParser.parseBusinessInfo, parseBusinessInfoFromText, getBusinessInfo *)

\* a JavaScript object: its own properties, <<key, value>>, in insertion
\* order.  A key is text; an identifier of the source is one character of it.
Obj(props) == [k |-> "obj", p |-> props]

HasKey(o, key) == \E i \in 1..Len(o.p) : o.p[i][1] = key

\* o[key] = v
SetKey(o, key, v) ==
    IF HasKey(o, key)
    THEN Obj([i \in 1..Len(o.p) |->
                 IF o.p[i][1] = key THEN <<key, v>> ELSE o.p[i]])
    ELSE Obj(Append(o.p, <<key, v>>))

\* the ASCII letters the transcripts and templates use
Letters == {"A", "a", "b", "t", "w"}

JsonFail == [ok |-> FALSE]

JsonOk(v, n) == [ok |-> TRUE, val |-> v, next |-> n]

\* a JSON string from the opening quote at i to the closing quote at j: it
\* holds no control character (the transcripts have no escapes)
JsonStringTo(s, i, j) ==
    IF \E c \in (i + 1)..(j - 1) : s[c] \in {"\n", "\t"} THEN JsonFail
    ELSE JsonOk(Str(SubSeq(s, i + 1, j - 1)), j + 1)

JsonString(s, i) ==
    IF \E j \in (i + 1)..Len(s) : s[j] = "quote"
    THEN JsonStringTo(s, i, Min({j \in (i + 1)..Len(s) : s[j] = "quote"}))
    ELSE JsonFail

\* n digits from index i on, with no leading zero
JsonDigits(s, neg, i, n) ==
    IF n = 0 THEN JsonFail
    ELSE IF s[i] = "0" THEN JsonOk(Num(0), i + 1)
    ELSE JsonOk(Num((IF neg THEN -1 ELSE 1) * DigitsValue(SubSeq(s, i, i + n - 1))),
                i + n)

\* a JSON number: the transcripts have no fraction or exponent characters
JsonNumber(s, i) ==
    IF s[i] = "-" THEN JsonDigits(s, TRUE, i + 1, DigitRun(s, i + 1))
    ELSE JsonDigits(s, FALSE, i, DigitRun(s, i))

RECURSIVE JsonValue(_, _), JsonMembers(_, _, _)

\* after a member's value, which ended before index i
JsonAfterValue(s, o, i) ==
    IF i > Len(s) THEN JsonFail
    ELSE IF s[i] = "}" THEN JsonOk(o, i + 1)
    ELSE IF s[i] = "," THEN JsonMembers(s, o, SkipWhiteSpace(s, i + 1))
    ELSE JsonFail

JsonMemberValue(s, o, key, v) ==
    IF v.ok THEN JsonAfterValue(s, SetKey(o, key.val.s, v.val),
                                SkipWhiteSpace(s, v.next))
    ELSE JsonFail

JsonAfterKey(s, o, key, i) ==
    IF i <= Len(s) /\ s[i] = ":"
    THEN JsonMemberValue(s, o, key, JsonValue(s, SkipWhiteSpace(s, i + 1)))
    ELSE JsonFail

JsonMember(s, o, key) ==
    IF key.ok THEN JsonAfterKey(s, o, key, SkipWhiteSpace(s, key.next))
    ELSE JsonFail

\* the members of an object from index i on, up to its closing brace
JsonMembers(s, o, i) ==
    IF i <= Len(s) /\ s[i] = "quote" THEN JsonMember(s, o, JsonString(s, i))
    ELSE JsonFail

JsonObject(s, i) ==
    IF i <= Len(s) /\ s[i] = "}" THEN JsonOk(Obj(<<>>), i + 1)
    ELSE JsonMembers(s, Obj(<<>>), i)

\* the JSON value that starts at index i.  Arrays and the literals true,
\* false and null need characters the transcripts do not contain.
JsonValue(s, i) ==
    IF i > Len(s) THEN JsonFail
    ELSE IF s[i] = "{" THEN JsonObject(s, SkipWhiteSpace(s, i + 1))
    ELSE IF s[i] = "quote" THEN JsonString(s, i)
    ELSE IF s[i] = "-" \/ IsDigit(s[i]) THEN JsonNumber(s, i)
    ELSE JsonFail

JsonWhole(s, v) ==
    IF v.ok /\ SkipWhiteSpace(s, v.next) = Len(s) + 1 THEN v ELSE JsonFail

\* JSON.parse(s): ok is FALSE where JSON.parse throws
JSONparse(s) == JsonWhole(s, JsonValue(s, SkipWhiteSpace(s, 1)))

\* ocrResult.match(/\{[\s\S]*\}/): from the first "{" to the last "}"
JsonMatchSpan(s, opens, closes) ==
    IF opens # {} /\ closes # {} /\ Min(opens) < MaxOf(closes)
    THEN [ok |-> TRUE, text |-> SubSeq(s, Min(opens), MaxOf(closes))]
    ELSE [ok |-> FALSE]

jsonMatch(s) ==
    JsonMatchSpan(s, {i \in 1..Len(s) : s[i] = "{"}, {i \in 1..Len(s) : s[i] = "}"})

patterns == <<
    \* 企业名称|公司名称|名称
    [key |-> "companyName", capture |-> "line",
     labels |-> <<<<"qi3", "ye", "ming", "cheng1">>,
                  <<"gong", "si", "ming", "cheng1">>,
                  <<"ming", "cheng1">>>>],
    \* 统一社会信用代码|信用代码
    [key |-> "creditCode", capture |-> "code",
     labels |-> <<<<"tong", "yi1", "she", "hui", "xin", "yong", "dai", "ma">>,
                  <<"xin", "yong", "dai", "ma">>>>],
    \* 法定代表人|法人代表|负责人
    [key |-> "legalRep", capture |-> "line",
     labels |-> <<<<"fa", "ding", "dai", "biao", "ren">>,
                  <<"fa", "ren", "dai", "biao">>,
                  <<"fu", "ze", "ren">>>>],
    \* 注册资本|注册资金
    [key |-> "registeredCapital", capture |-> "line",
     labels |-> <<<<"zhu4", "ce", "zi", "ben">>,
                  <<"zhu4", "ce", "zi", "jin">>>>],
    \* 成立日期|注册日期|成立时间
    [key |-> "establishDate", capture |-> "date",
     labels |-> <<<<"cheng", "li4", "ri", "qi1">>,
                  <<"zhu4", "ce", "ri", "qi1">>,
                  <<"cheng", "li4", "shi2", "jian">>>>],
    \* 注册地址|住所|经营场所
    [key |-> "registeredAddress", capture |-> "line",
     labels |-> <<<<"zhu4", "ce", "di", "zhi">>,
                  <<"zhu4b", "suo">>,
                  <<"jing1", "ying2", "chang", "suo">>>>],
    \* 经营范围
    [key |-> "businessScope", capture |-> "line",
     labels |-> <<<<"jing1", "ying2", "fan", "wei">>>>],
    \* 行业|所属行业
    [key |-> "industry", capture |-> "line",
     labels |-> <<<<"hang", "ye">>,
                  <<"suo", "shu3", "hang", "ye">>>>],
    \* 企业类型|公司类型
    [key |-> "companyType", capture |-> "line",
     labels |-> <<<<"qi3", "ye", "lei", "xing">>,
                  <<"gong", "si", "lei", "xing">>>>]
>>
\* label characters: 本 ben 表 biao 册 ce 场 chang 成 cheng 称 cheng1 代 dai 地 di 定 ding 法 fa 范 fan 负 fu 公 gong 行 hang 会 hui 间 jian 金 jin 经 jing1 类 lei 立 li4 码 ma 名 ming 期 qi1 企 qi3 人 ren 日 ri 社 she 时 shi2 属 shu3 司 si 所 suo 统 tong 围 wei 信 xin 型 xing 业 ye 一 yi1 营 ying2 用 yong 责 ze 址 zhi 注 zhu4 住 zhu4b 资 zi

\* the two colons of [：:]: "wcolon" is the full-width colon
Colons == {":", "wcolon"}

NoCapture == [ok |-> FALSE]

Capture(t) == [ok |-> TRUE, text |-> t]

RECURSIVE LineEnd(_, _)
\* the index of the last character of the run of [^\n] that starts at i
LineEnd(s, i) ==
    IF i + 1 <= Len(s) /\ s[i + 1] # "\n" THEN LineEnd(s, i + 1) ELSE i

\* \s*([^\n]+) after the colon at q.  \s* first takes all the white space,
\* new lines included, up to r; if the text ends there, it gives characters
\* back until one that is not a new line is left for the group.
CaptureLineFrom(s, q, r) ==
    IF r <= Len(s) THEN Capture(SubSeq(s, r, LineEnd(s, r)))
    ELSE IF \E j \in (q + 1)..Len(s) : s[j] # "\n"
    THEN Capture(<<s[MaxOf({j \in (q + 1)..Len(s) : s[j] # "\n"})]>>)
    ELSE NoCapture

RECURSIVE CodeRun(_, _)
\* the number of characters of [A-Z0-9], case ignored, from index i on
CodeRun(s, i) ==
    IF i <= Len(s) /\ (IsDigit(s[i]) \/ s[i] \in Letters)
    THEN 1 + CodeRun(s, i + 1) ELSE 0

\* \s*([A-Z0-9]+) with the i flag
CaptureCodeFrom(s, r, n) ==
    IF n > 0 THEN Capture(SubSeq(s, r, r + n - 1)) ELSE NoCapture

CharIn(s, i, class) == i <= Len(s) /\ s[i] \in class

\* \d{1,2} at the end of the date: as many digits as there are, at most two
DateDayLen(s, i) == IF DigitRun(s, i) >= 2 THEN 2 ELSE DigitRun(s, i)

\* \d{4}[-\/年]\d{n}[-\/月]\d{1,2} from index r on, n the length of the month
DateWithMonth(s, r, n) ==
    /\ DigitRun(s, r) >= 4
    /\ CharIn(s, r + 4, {"-", "/", "nian"})
    /\ DigitRun(s, r + 5) >= n
    /\ CharIn(s, r + 5 + n, {"-", "/", "yue"})
    /\ DigitRun(s, r + 6 + n) >= 1

\* \s*(\d{4}[-\/年]\d{1,2}[-\/月]\d{1,2}): "nian" is 年 and "yue" is 月
CaptureDateFrom(s, r) ==
    IF DateWithMonth(s, r, 2)
    THEN Capture(SubSeq(s, r, r + 7 + DateDayLen(s, r + 8)))
    ELSE IF DateWithMonth(s, r, 1)
    THEN Capture(SubSeq(s, r, r + 6 + DateDayLen(s, r + 7)))
    ELSE NoCapture

\* the rest of a pattern after the colon at index q
CaptureAfterColon(s, q, kind) ==
    CASE kind = "line" -> CaptureLineFrom(s, q, SkipWhiteSpace(s, q + 1))
      [] kind = "code" ->
            CaptureCodeFrom(s, SkipWhiteSpace(s, q + 1),
                            CodeRun(s, SkipWhiteSpace(s, q + 1)))
      [] kind = "date" -> CaptureDateFrom(s, SkipWhiteSpace(s, q + 1))

\* label, then colon, then the rest, with the label starting at index p
LabelAt(s, p, label) ==
    /\ p + Len(label) <= Len(s)
    /\ s[p] = label[1]
    /\ s[p + Len(label)] \in Colons
    /\ SubSeq(s, p, p + Len(label) - 1) = label

RECURSIVE MatchAlternatives(_, _, _, _)
\* the alternatives of (?:...), tried in order at index p: the first whose
\* label and colon match and after which the rest matches
MatchAlternatives(s, p, pat, a) ==
    IF a > Len(pat.labels) THEN NoCapture
    ELSE IF LabelAt(s, p, pat.labels[a])
            /\ CaptureAfterColon(s, p + Len(pat.labels[a]), pat.capture).ok
    THEN CaptureAfterColon(s, p + Len(pat.labels[a]), pat.capture)
    ELSE MatchAlternatives(s, p, pat, a + 1)

\* text.match(pattern): the match at the leftmost index that has one
MatchFirst(s, pat, starts) ==
    IF starts = {} THEN NoCapture ELSE MatchAlternatives(s, Min(starts), pat, 1)

match(s, pat) ==
    MatchFirst(s, pat, {p \in 1..Len(s) : MatchAlternatives(s, p, pat, 1).ok})

\* if (match) info[key] = match[1].trim()
WithField(info, key, m) ==
    IF m.ok THEN SetKey(info, <<key>>, Str(Trim(m.text))) ELSE info

RECURSIVE FieldsFrom(_, _, _)
\* for (const [key, pattern] of Object.entries(patterns))
FieldsFrom(text, info, i) ==
    IF i > Len(patterns) THEN info
    ELSE FieldsFrom(text,
                    WithField(info, patterns[i].key, match(text, patterns[i])),
                    i + 1)

\* the object parseBusinessInfoFromText builds, stores and returns
parseBusinessInfoFromText(text) == FieldsFrom(text, Obj(<<>>), 1)

\* const info = JSON.parse(jsonMatch[0]), or the fallback when it throws
ParsedOrFallback(text, parsed) ==
    IF parsed.ok THEN parsed.val ELSE parseBusinessInfoFromText(text)

\* the object parseBusinessInfo stores and returns
parseBusinessInfo(text) ==
    IF jsonMatch(text).ok
    THEN ParsedOrFallback(text, JSONparse(jsonMatch(text).text))
    ELSE parseBusinessInfoFromText(text)

\* this.businessInfo || {}
getBusinessInfo(info) == IF info = Null THEN Obj(<<>>) ELSE info

MaxSegments == 3

\* the pieces the transcripts are put together from
SegmentPool == {
    <<"}">>,
    <<"{", "quote", "a", "quote", ":", "1", "}">>,
    <<"{", "quote", "b", "quote", ":">>,
    <<" ">>,
    <<"\n">>,
    <<"ming", "cheng1", ":">>,
    <<"xin", "yong", "dai", "ma", "wcolon">>,
    <<"A", "zhang1">>,
    <<"cheng", "li4", "ri", "qi1", ":", "2", "0", "2", "0", "-", "1", "-", "5">>
}

RECURSIVE Concat(_)
Concat(segs) == IF segs = <<>> THEN <<>> ELSE Head(segs) \o Concat(Tail(segs))

Transcripts == {Concat(segs) : segs \in SeqsUpTo(SegmentPool, 0, MaxSegments)}

BizInit ==
    /\ ocrResult \in Transcripts
    /\ businessInfo = Null
    /\ infoOut = Pending
    /\ infoGot = Pending

BizIdle ==
    /\ ocrResult = <<>>
    /\ businessInfo = Null
    /\ infoOut = [k |-> "idle"]
    /\ infoGot = Pending

\* fileParser.parseBusinessInfo(ocrResult)
CallParseBusinessInfo ==
    /\ infoOut = Pending
    /\ businessInfo' = parseBusinessInfo(ocrResult)
    /\ infoOut' = businessInfo'
    /\ infoGot' = Pending
    /\ UNCHANGED <<ocrResult, numVars, exVars, filesVars, tplVars, genVars, uiVars, apiVars>>

\* fileParser.parseBusinessInfoFromText(ocrResult)
CallParseBusinessInfoFromText ==
    /\ infoOut = Pending
    /\ businessInfo' = parseBusinessInfoFromText(ocrResult)
    /\ infoOut' = businessInfo'
    /\ infoGot' = Pending
    /\ UNCHANGED <<ocrResult, numVars, exVars, filesVars, tplVars, genVars, uiVars, apiVars>>

\* fileParser.getBusinessInfo()
CallGetBusinessInfo ==
    /\ infoOut # [k |-> "idle"]
    /\ infoGot = Pending
    /\ infoGot' = getBusinessInfo(businessInfo)
    /\ UNCHANGED <<ocrResult, businessInfo, infoOut, numVars, exVars, filesVars, tplVars, genVars, uiVars, apiVars>>

-----------------------------------------------------------------------------
(* TemplateEngine.analyzeTemplate, findExistingPlaceholders, generateDocument *)

\* the index of the first "}" of s after index i; there is one
FirstClose(s, i) == Min({j \in (i + 1)..Len(s) : s[j] = "}"})

\* /\{([^}]+)\}/ matches from index i: "{", a character that is not "}",
\* and a "}" further on
PlaceholderAt(s, i) ==
    /\ s[i] = "{"
    /\ i + 1 <= Len(s)
    /\ s[i + 1] # "}"
    /\ \E j \in (i + 2)..Len(s) : s[j] = "}"

\* if (!placeholders.includes(placeholder)) placeholders.push(placeholder)
PushNew(placeholders, placeholder) ==
    IF \E n \in 1..Len(placeholders) : placeholders[n] = placeholder
    THEN placeholders
    ELSE Append(placeholders, placeholder)

RECURSIVE ExecFrom(_, _, _)
\* while ((match = regex.exec(content)) !== null), lastIndex at from - 1
ExecFrom(content, from, placeholders) ==
    IF \E i \in from..Len(content) : PlaceholderAt(content, i)
    THEN ExecFrom(content,
                  FirstClose(content,
                      Min({i \in from..Len(content) : PlaceholderAt(content, i)})) + 1,
                  PushNew(placeholders,
                      Str(Trim(SubSeq(content,
                          Min({i \in from..Len(content) : PlaceholderAt(content, i)}) + 1,
                          FirstClose(content,
                              Min({i \in from..Len(content) :
                                      PlaceholderAt(content, i)})) - 1)))))
    ELSE placeholders

findExistingPlaceholders(content) == ExecFrom(content, 1, <<>>)

\* the object analyzeTemplate stores and returns.  findExistingPlaceholders
\* does not throw on a string, so the catch branch is not taken.
Analysis(content, existingPlaceholders) ==
    [hasExistingPlaceholders |-> Len(existingPlaceholders) > 0,
     placeholders |-> existingPlaceholders,
     content |-> content]

analyzeTemplate(templateContent) ==
    Analysis(templateContent, findExistingPlaceholders(templateContent))

\* [a-zA-Z_] and [a-zA-Z0-9_] on the characters the templates use
IdentStart == Letters \cup {"_"}

IdentChar(c) == c \in IdentStart \/ IsDigit(c)

\* /\{[a-zA-Z_][a-zA-Z0-9_]*\}/.test(xml)
hasPlaceholders(xml) ==
    \E i \in 1..Len(xml) : \E j \in (i + 2)..Len(xml) :
        /\ xml[i] = "{"
        /\ xml[j] = "}"
        /\ xml[i + 1] \in IdentStart
        /\ \A c \in (i + 2)..(j - 1) : IdentChar(xml[c])

\* the strategy generateDocument runs
StrategyFor(xml) ==
    IF hasPlaceholders(xml) THEN "generateWithDocxtemplater"
    ELSE "generateWithSmartReplacement"

MaxRuns == 3

\* the texts of the runs the templates are put together from: "gong" is 公
RunPool == {
    <<"{", "a", "}">>,
    <<"{", "b", "}">>,
    <<"{", " ", "b", " ", "}">>,
    <<"{", "gong", "}">>,
    <<"{">>,
    <<"}">>,
    <<"a">>,
    <<" ">>
}

\* a template is the sequence of the texts of its runs
Templates == SeqsUpTo(RunPool, 0, MaxRuns)

RECURSIVE RunsMarkup(_)
\* word/document.xml, as far as the tests on it go: each run's text in a
\* <w:t> element
RunsMarkup(runs) ==
    IF runs = <<>> THEN <<>>
    ELSE <<"<", "w", ":", "t", ">">> \o Head(runs)
             \o <<"<", "/", "w", ":", "t", ">">> \o RunsMarkup(Tail(runs))

\* doc.getFullText(): the texts of the runs, one after the other
getFullText(runs) == Concat(runs)

TplInit ==
    /\ template \in Templates
    /\ templateAnalysis = Null
    /\ documentXml = Null
    /\ strategy = "none"

TplIdle ==
    /\ template = <<>>
    /\ templateAnalysis = Null
    /\ documentXml = Null
    /\ strategy = "idle"

\* templateEngine.setOriginalZip(result.zip)
SetOriginalZip ==
    /\ strategy = "none"
    /\ documentXml = Null
    /\ documentXml' = Str(RunsMarkup(template))
    /\ UNCHANGED <<template, templateAnalysis, strategy>>
    /\ UNCHANGED <<numVars, exVars, filesVars, bizVars, genVars, uiVars, apiVars>>

\* templateEngine.analyzeTemplate(result.content)
AnalyzeTemplate ==
    /\ strategy = "none"
    /\ templateAnalysis = Null
    /\ templateAnalysis' = analyzeTemplate(getFullText(template))
    /\ UNCHANGED <<template, documentXml, strategy>>
    /\ UNCHANGED <<numVars, exVars, filesVars, bizVars, genVars, uiVars, apiVars>>

\* templateEngine.generateDocument(templateZip, data): the test is made on
\* the document.xml of the zip passed in
GenerateDocument ==
    /\ strategy = "none"
    /\ strategy' = StrategyFor(RunsMarkup(template))
    /\ UNCHANGED <<template, templateAnalysis, documentXml>>
    /\ UNCHANGED <<numVars, exVars, filesVars, bizVars, genVars, uiVars, apiVars>>

-----------------------------------------------------------------------------
(* TemplateEngine.generateDocument: the heuristic passes *)

\* word/document.xml is a sequence of tokens: an element tag is one token,
\* text is one token per character
Tags == {
    "<w:body>", "</w:body>", "<w:tc>", "</w:tc>", "<w:p>", "</w:p>",
    "<w:r>", "</w:r>", "<w:t>", "</w:t>", "<w:pPr>", "</w:pPr>",
    "<w:rPr>", "</w:rPr>", "<w:rFonts/>", "<w:b/>", "<w:bCs/>",
    "<w:sz 28/>", "<w:szCs 28/>", "<w:sz 24/>", "<w:szCs 24/>",
    "<w:jc left/>", "<w:jc center/>", "<w:jc right/>", "<w:br page/>"
}

\* \s: "wspace" is the ideographic space U+3000
XmlSpace == WhiteSpace \cup {"wspace"}

\* [_\s]
BlankChars == {"_"} \cup XmlSpace

\* the tags <w:t[^>]*> matches
TOpen == {"<w:t>", "<w:tc>"}

\* the tags <w:tc[^>]*> matches
TcOpen == {"<w:tc>"}

\* data.<field>, undefined for a key the object does not have
Get(data, field) == IF field \in DOMAIN data THEN data[field] ELSE Undefined

\* String(value) of a truthy value
StringOf(value) == IF value.k = "num" THEN NumberText(value) ELSE value.s

EscapeChar(c) ==
    CASE c = "&" -> <<"&", "a", "m", "p", ";">>
      [] c = "<" -> <<"&", "l", "t", ";">>
      [] c = ">" -> <<"&", "g", "t", ";">>
      [] c = "\"" -> <<"&", "q", "u", "o", "t", ";">>
      [] c = "'" -> <<"&", "a", "p", "o", "s", ";">>
      [] OTHER -> <<c>>

\* a bug escapeXml could have: the text is passed through
escapeXmlNothing(str) == str

RECURSIVE escapeXml(_)
\* '' for a falsy str; & is replaced first, so no entity is escaped twice
escapeXml(str) ==
    IF str = <<>> THEN <<>>
    ELSE EscapeChar(Head(str)) \o escapeXml(Tail(str))

RECURSIVE Expand(_, _, _, _, _)
\* what String.prototype.replace puts in for one match when the replacement
\* is the string repl: $$, $&, $`, $' and $n, $nn for the groups there are
\* ("bquote" is the backquote character)
Expand(repl, groups, matched, before, after) ==
    IF repl = <<>> THEN <<>>
    ELSE IF Head(repl) # "$" \/ Len(repl) = 1
    THEN <<Head(repl)>> \o Expand(Tail(repl), groups, matched, before, after)
    ELSE LET c == repl[2]
             Rest(n) == Expand(SubSeq(repl, n, Len(repl)), groups, matched, before, after)
             TwoDigits ==
                 /\ Len(repl) >= 3
                 /\ IsDigit(repl[3])
                 /\ 10 * DigitVal(c) + DigitVal(repl[3]) \in 1..Len(groups)
         IN  CASE c = "$" -> <<"$">> \o Rest(3)
               [] c = "&" -> matched \o Rest(3)
               [] c = "bquote" -> before \o Rest(3)
               [] c = "'" -> after \o Rest(3)
               [] IsDigit(c) /\ TwoDigits ->
                      groups[10 * DigitVal(c) + DigitVal(repl[3])] \o Rest(4)
               [] IsDigit(c) /\ ~TwoDigits /\ DigitVal(c) \in 1..Len(groups) ->
                      groups[DigitVal(c)] \o Rest(3)
               [] OTHER -> <<"$">> \o Rest(2)

\* labelMap of replaceTableCells, in insertion order
tableLabelMap == <<
    [label |-> <<"qi3", "ye", "ming", "cheng1">>, field |-> "companyName"],   \* 企业名称
    [label |-> <<"ke", "hu", "ming", "cheng1">>, field |-> "companyName"],   \* 客户名称
    [label |-> <<"jie", "kuan", "ren", "ming", "cheng1">>, field |-> "companyName"],   \* 借款人名称
    [label |-> <<"jie", "kuan", "ren">>, field |-> "companyName"],   \* 借款人
    [label |-> <<"tong", "yi1", "she", "hui", "xin", "yong", "dai", "ma">>, field |-> "creditCode"],   \* 统一社会信用代码
    [label |-> <<"she", "hui", "xin", "yong", "dai", "ma">>, field |-> "creditCode"],   \* 社会信用代码
    [label |-> <<"zu", "zhi1", "ji1", "gou", "dai", "ma">>, field |-> "creditCode"],   \* 组织机构代码
    [label |-> <<"fa", "ding", "dai", "biao", "ren">>, field |-> "legalRep"],   \* 法定代表人
    [label |-> <<"fa", "ren", "dai", "biao">>, field |-> "legalRep"],   \* 法人代表
    [label |-> <<"fu", "ze", "ren">>, field |-> "legalRep"],   \* 负责人
    [label |-> <<"zhu4", "ce", "zi", "ben">>, field |-> "registeredCapital"],   \* 注册资本
    [label |-> <<"zhu4", "ce", "zi", "jin">>, field |-> "registeredCapital"],   \* 注册资金
    [label |-> <<"cheng", "li4", "ri", "qi1">>, field |-> "establishDate"],   \* 成立日期
    [label |-> <<"cheng", "li4", "shi2", "jian">>, field |-> "establishDate"],   \* 成立时间
    [label |-> <<"zhu4", "ce", "ri", "qi1">>, field |-> "establishDate"],   \* 注册日期
    [label |-> <<"suo", "shu3", "hang", "ye">>, field |-> "industry"],   \* 所属行业
    [label |-> <<"hang", "ye", "fen", "lei">>, field |-> "industry"],   \* 行业分类
    [label |-> <<"zhu", "ying2", "hang", "ye">>, field |-> "industry"],   \* 主营行业
    [label |-> <<"zhu4", "ce", "di", "zhi">>, field |-> "registeredAddress"],   \* 注册地址
    [label |-> <<"zhu4b", "suo">>, field |-> "registeredAddress"],   \* 住所
    [label |-> <<"gong", "si", "di", "zhi">>, field |-> "registeredAddress"],   \* 公司地址
    [label |-> <<"jing1", "ying2", "fan", "wei">>, field |-> "businessScope"],   \* 经营范围
    [label |-> <<"yuan2", "gong1", "ren", "shu">>, field |-> "employeeCount"],   \* 员工人数
    [label |-> <<"zhi2", "gong1", "ren", "shu">>, field |-> "employeeCount"],   \* 职工人数
    [label |-> <<"qi3", "ye", "gui", "mo">>, field |-> "companySize"],   \* 企业规模
    [label |-> <<"zi", "chan", "zong", "e">>, field |-> "totalAssetsEnd"],   \* 资产总额
    [label |-> <<"zi", "chan", "zong", "ji">>, field |-> "totalAssetsEnd"],   \* 资产总计
    [label |-> <<"fu", "zhai", "zong", "e">>, field |-> "totalLiabilitiesEnd"],   \* 负债总额
    [label |-> <<"fu", "zhai", "zong", "ji">>, field |-> "totalLiabilitiesEnd"],   \* 负债总计
    [label |-> <<"suo", "you", "zhe", "quan", "yi">>, field |-> "ownerEquityEnd"],   \* 所有者权益
    [label |-> <<"jing", "zi", "chan">>, field |-> "ownerEquityEnd"],   \* 净资产
    [label |-> <<"ying2", "ye", "shou", "ru">>, field |-> "revenueCurrent"],   \* 营业收入
    [label |-> <<"jing", "li", "run">>, field |-> "netProfitCurrent"],   \* 净利润
    [label |-> <<"li", "run", "zong", "e">>, field |-> "netProfitCurrent"],   \* 利润总额
    [label |-> <<"zi", "chan", "fu", "zhai", "lv">>, field |-> "debtRatioEnd"],   \* 资产负债率
    [label |-> <<"shou3", "xin", "jin", "e">>, field |-> "creditAmount"],   \* 授信金额
    [label |-> <<"dai4", "kuan", "jin", "e">>, field |-> "creditAmount"],   \* 贷款金额
    [label |-> <<"shen", "qing", "jin", "e">>, field |-> "creditAmount"],   \* 申请金额
    [label |-> <<"shou3", "xin", "qi1", "xian">>, field |-> "creditPeriod"],   \* 授信期限
    [label |-> <<"dai4", "kuan", "qi1", "xian">>, field |-> "creditPeriod"],   \* 贷款期限
    [label |-> <<"shou3", "xin", "lei", "xing">>, field |-> "creditType"],   \* 授信类型
    [label |-> <<"dai4", "kuan", "lei", "xing">>, field |-> "creditType"],   \* 贷款类型
    [label |-> <<"dai4", "kuan", "pin", "zhong">>, field |-> "creditType"],   \* 贷款品种
    [label |-> <<"shou3", "xin", "yong", "tu">>, field |-> "creditPurpose"],   \* 授信用途
    [label |-> <<"dai4", "kuan", "yong", "tu">>, field |-> "creditPurpose"],   \* 贷款用途
    [label |-> <<"zi", "jin", "yong", "tu">>, field |-> "creditPurpose"]   \* 资金用途
>>

\* labelMap of replaceLabeledContent
colonLabelMap == <<
    [label |-> <<"qi3", "ye", "ming", "cheng1">>, field |-> "companyName"],   \* 企业名称
    [label |-> <<"ke", "hu", "ming", "cheng1">>, field |-> "companyName"],   \* 客户名称
    [label |-> <<"tong", "yi1", "she", "hui", "xin", "yong", "dai", "ma">>, field |-> "creditCode"],   \* 统一社会信用代码
    [label |-> <<"fa", "ding", "dai", "biao", "ren">>, field |-> "legalRep"],   \* 法定代表人
    [label |-> <<"zhu4", "ce", "zi", "ben">>, field |-> "registeredCapital"],   \* 注册资本
    [label |-> <<"cheng", "li4", "ri", "qi1">>, field |-> "establishDate"],   \* 成立日期
    [label |-> <<"suo", "shu3", "hang", "ye">>, field |-> "industry"],   \* 所属行业
    [label |-> <<"zhu4", "ce", "di", "zhi">>, field |-> "registeredAddress"],   \* 注册地址
    [label |-> <<"shou3", "xin", "jin", "e">>, field |-> "creditAmount"],   \* 授信金额
    [label |-> <<"shou3", "xin", "qi1", "xian">>, field |-> "creditPeriod"]   \* 授信期限
>>

\* patterns of replaceBlankFields
blankPatterns == <<
    [label |-> <<"qi3", "ye", "ming", "cheng1">>, field |-> "companyName"],   \* 企业名称
    [label |-> <<"ke", "hu", "ming", "cheng1">>, field |-> "companyName"],   \* 客户名称
    [label |-> <<"fa", "ding", "dai", "biao", "ren">>, field |-> "legalRep"],   \* 法定代表人
    [label |-> <<"zhu4", "ce", "zi", "ben">>, field |-> "registeredCapital"],   \* 注册资本
    [label |-> <<"cheng", "li4", "ri", "qi1">>, field |-> "establishDate"],   \* 成立日期
    [label |-> <<"shou3", "xin", "jin", "e">>, field |-> "creditAmount"],   \* 授信金额
    [label |-> <<"shou3", "xin", "qi1", "xian">>, field |-> "creditPeriod"]   \* 授信期限
>>

\* companyInfo of createFilledContentSection
companyInfo == <<
    [label |-> <<"qi3", "ye", "ming", "cheng1">>, field |-> "companyName", unit |-> <<>>],   \* 企业名称
    [label |-> <<"tong", "yi1", "she", "hui", "xin", "yong", "dai", "ma">>, field |-> "creditCode", unit |-> <<>>],   \* 统一社会信用代码
    [label |-> <<"fa", "ding", "dai", "biao", "ren">>, field |-> "legalRep", unit |-> <<>>],   \* 法定代表人
    [label |-> <<"zhu4", "ce", "zi", "ben">>, field |-> "registeredCapital", unit |-> <<>>],   \* 注册资本
    [label |-> <<"cheng", "li4", "ri", "qi1">>, field |-> "establishDate", unit |-> <<>>],   \* 成立日期
    [label |-> <<"suo", "shu3", "hang", "ye">>, field |-> "industry", unit |-> <<>>],   \* 所属行业
    [label |-> <<"qi3", "ye", "gui", "mo">>, field |-> "companySize", unit |-> <<>>],   \* 企业规模
    [label |-> <<"yuan2", "gong1", "ren", "shu">>, field |-> "employeeCount", unit |-> <<>>],   \* 员工人数
    [label |-> <<"zhu4", "ce", "di", "zhi">>, field |-> "registeredAddress", unit |-> <<>>]   \* 注册地址
>>

\* financialInfo of createFilledContentSection
financialInfo == <<
    [label |-> <<"zi", "chan", "zong", "e">>, field |-> "totalAssetsEnd", unit |-> <<"wan", "yuan">>],   \* 资产总额
    [label |-> <<"fu", "zhai", "zong", "e">>, field |-> "totalLiabilitiesEnd", unit |-> <<"wan", "yuan">>],   \* 负债总额
    [label |-> <<"suo", "you", "zhe", "quan", "yi">>, field |-> "ownerEquityEnd", unit |-> <<"wan", "yuan">>],   \* 所有者权益
    [label |-> <<"ying2", "ye", "shou", "ru">>, field |-> "revenueCurrent", unit |-> <<"wan", "yuan">>],   \* 营业收入
    [label |-> <<"jing", "li", "run">>, field |-> "netProfitCurrent", unit |-> <<"wan", "yuan">>],   \* 净利润
    [label |-> <<"zi", "chan", "fu", "zhai", "lv">>, field |-> "debtRatioEnd", unit |-> <<"%">>]   \* 资产负债率
>>

\* creditInfo of createFilledContentSection
creditInfo == <<
    [label |-> <<"shou3", "xin", "lei", "xing">>, field |-> "creditType", unit |-> <<>>],   \* 授信类型
    [label |-> <<"shou3", "xin", "jin", "e">>, field |-> "creditAmount", unit |-> <<"wan", "yuan">>],   \* 授信金额
    [label |-> <<"shou3", "xin", "qi1", "xian">>, field |-> "creditPeriod", unit |-> <<"ge", "yue">>],   \* 授信期限
    [label |-> <<"shou3", "xin", "yong", "tu">>, field |-> "creditPurpose", unit |-> <<>>]   \* 授信用途
>>

\* textSections of createFilledContentSection
textSections == <<
    [title |-> <<"si4", "dun", "qi3", "ye", "ji2", "ben", "qing2", "kuang">>, field |-> "basicSituation"],   \* 四、企业基本情况
    [title |-> <<"wu3", "dun", "shi", "ji4", "kong", "zhi4", "ren", "qing2", "kuang">>, field |-> "controllerSituation"],   \* 五、实际控制人情况
    [title |-> <<"liu4", "dun", "jing1", "ying2", "zhuang", "kuang", "fen", "xi1">>, field |-> "businessStatus"],   \* 六、经营状况分析
    [title |-> <<"qi", "dun", "shi4", "chang", "fen", "xi1">>, field |-> "marketAnalysis"],   \* 七、市场分析
    [title |-> <<"ba", "dun", "cai", "wu", "zhuang", "kuang", "gai", "shu4">>, field |-> "financialOverview"],   \* 八、财务状况概述
    [title |-> <<"jiu", "dun", "cai", "wu", "zhi3", "biao1", "fen", "xi1">>, field |-> "financialIndicators"],   \* 九、财务指标分析
    [title |-> <<"shi5", "dun", "xin", "yong", "feng", "xian3", "fen", "xi1">>, field |-> "creditRisk"],   \* 十、信用风险分析
    [title |-> <<"shi5", "yi1", "dun", "shi4", "chang", "feng", "xian3", "fen", "xi1">>, field |-> "marketRisk"],   \* 十一、市场风险分析
    [title |-> <<"shi5", "er", "dun", "zong", "ti", "ping", "jia">>, field |-> "overallEvaluation"],   \* 十二、总体评价
    [title |-> <<"shi5", "san", "dun", "shou3", "xin", "jian4", "yi4">>, field |-> "creditSuggestion"]   \* 十三、授信建议
>>

SummaryTitle == <<"shou3", "xin", "bao", "gao", "tian", "xie", "shu", "ju", "hui4", "zong">>   \* 授信报告填写数据汇总

CompanyTitle == <<"yi1", "dun", "qi3", "ye", "ji2", "ben", "xin", "xi">>   \* 一、企业基本信息

FinancialTitle == <<"er", "dun", "cai", "wu", "xin", "xi">>   \* 二、财务信息

CreditTitle == <<"san", "dun", "shou3", "xin", "xin", "xi">>   \* 三、授信信息

BusinessScopeLabel == <<"jing1", "ying2", "fan", "wei", "wcolon">>   \* 经营范围：

ReportDateLabel == <<"bao", "gao", "ri", "qi1", "wcolon">>   \* 报告日期：

RECURSIVE NextTag(_, _)
\* the end of [^<]* from i: the index of the first tag at or after i
NextTag(xml, i) ==
    IF i > Len(xml) \/ xml[i] \in Tags \/ xml[i] = "<" THEN i
    ELSE NextTag(xml, i + 1)

RECURSIVE SkipXmlSpace(_, _)
\* the end of \s* from i
SkipXmlSpace(xml, i) ==
    IF i <= Len(xml) /\ xml[i] \in XmlSpace THEN SkipXmlSpace(xml, i + 1) ELSE i

RECURSIVE SkipUnderscores(_, _)
\* the end of _+ from i
SkipUnderscores(xml, i) ==
    IF i <= Len(xml) /\ xml[i] = "_" THEN SkipUnderscores(xml, i + 1) ELSE i

TokenAt(xml, i) == IF i \in 1..Len(xml) THEN xml[i] ELSE "none"

\* (<w:t[^>]*>)([^<]*LABEL[^<]*)(<\/w:t>) matches from a
LabelRun(xml, a, label) ==
    /\ TokenAt(xml, a) \in TOpen
    /\ TokenAt(xml, NextTag(xml, a + 1)) = "</w:t>"
    /\ Includes(SubSeq(xml, a + 1, NextTag(xml, a + 1) - 1), label)

\* a run with any text, blank or not
AnyRun(xml, d) ==
    /\ TokenAt(xml, d) \in TOpen
    /\ TokenAt(xml, NextTag(xml, d + 1)) = "</w:t>"

\* (<w:t[^>]*>)([_\s]*)(<\/w:t>) matches from d
BlankRun(xml, d) ==
    /\ TokenAt(xml, d) \in TOpen
    /\ TokenAt(xml, NextTag(xml, d + 1)) = "</w:t>"
    /\ \A i \in (d + 1)..(NextTag(xml, d + 1) - 1) : xml[i] \in BlankChars

\* <\/w:tc>\s*<w:tc[^>]*> matches from c
CellBreak(xml, c) ==
    /\ TokenAt(xml, c) = "</w:tc>"
    /\ TokenAt(xml, SkipXmlSpace(xml, c + 1)) \in TcOpen

\* the blank runs .*?<w:t[^>]*>([_\s]*)<\/w:t> can reach after the cell break
\* at c
BlanksAfterBreak(xml, c) ==
    {d \in (SkipXmlSpace(xml, c + 1) + 1)..Len(xml) : BlankRun(xml, d)}

\* the cell breaks <\/w:t>.*?<\/w:tc>\s*<w:tc[^>]*> can reach from the end
\* of the label run at a, a blank run following
BreaksAfterLabel(xml, a) ==
    {c \in (NextTag(xml, a + 1) + 1)..Len(xml) :
        CellBreak(xml, c) /\ BlanksAfterBreak(xml, c) # {}}

\* the label runs <w:tc[^>]*>.*?<w:t[^>]*> can reach from the cell opened at
\* s, the rest of the pattern matching after them
LabelsAfterCell(xml, s, label) ==
    {a \in (s + 1)..Len(xml) :
        LabelRun(xml, a, label) /\ BreaksAfterLabel(xml, a) # {}}

\* the first match of tablePattern at or after pos: the lazy quantifiers take
\* the nearest label run, then the nearest cell break, then the nearest blank
\* run; d is the blank run's opening tag
TableMatch(xml, pos, label) ==
    LET cells == {s \in pos..Len(xml) : xml[s] \in TcOpen}
        Blank(d) == [ok |-> TRUE, d |-> d, e |-> NextTag(xml, d + 1)]
        Break(c) == Blank(Min(BlanksAfterBreak(xml, c)))
        Labelled(a) == Break(Min(BreaksAfterLabel(xml, a)))
        From(labels) ==
            IF labels = {} THEN [ok |-> FALSE] ELSE Labelled(Min(labels))
    IN  IF cells = {} THEN [ok |-> FALSE]
        ELSE From(LabelsAfterCell(xml, Min(cells), label))

RECURSIVE ReplaceTableFrom(_, _, _, _)
\* xml.replace(tablePattern, (match, p1, p2, p3, p4, p5) => ...) from pos on:
\* p4 is all underscores and white space, so the test on it always passes
ReplaceTableFrom(xml, pos, label, value) ==
    LET Replaced(m) ==
            IF ~m.ok THEN SubSeq(xml, pos, Len(xml))
            ELSE SubSeq(xml, pos, m.d) \o escapeXml(StringOf(value))
                     \o <<"</w:t>">> \o ReplaceTableFrom(xml, m.e + 1, label, value)
    IN  Replaced(TableMatch(xml, pos, label))

\* replaceTableCells: the replace call for one label
ReplaceTable(xml, label, value) == ReplaceTableFrom(xml, 1, label, value)

\* where (<w:t[^>]*>)(LABEL[：:][\s]*)(_+|[\s]{2,}|　+)(<\/w:t>) matches from
\* a: r is the first token after the colon, w the end of the white space from
\* r, e the next tag.  Group 2 takes the white space and gives back what
\* group 3 needs: nothing when underscores follow, one ideographic space, or
\* else two characters of white space.
ColonMatchAt(xml, a, label) ==
    LET r == a + Len(label) + 2
        w == SkipXmlSpace(xml, r)
        e == NextTag(xml, r)
        Found(g3) == [ok |-> TRUE, a |-> a, g3 |-> g3, e |-> e]
    IN  IF ~ /\ TokenAt(xml, a) \in TOpen
             /\ TokenAt(xml, r - 1) \in Colons
             /\ SubSeq(xml, a + 1, a + Len(label)) = label
             /\ TokenAt(xml, e) = "</w:t>"
        THEN [ok |-> FALSE]
        ELSE IF w < e
        THEN IF SkipUnderscores(xml, w) = e THEN Found(w) ELSE [ok |-> FALSE]
        ELSE IF e - r >= 1 /\ xml[e - 1] = "wspace" THEN Found(e - 1)
        ELSE IF e - r >= 2 THEN Found(e - 2)
        ELSE [ok |-> FALSE]

RECURSIVE ReplaceColonFrom(_, _, _, _)
\* xml.replace(colonPattern, `$1$2${this.escapeXml(String(value))}$4`) from
\* pos on
ReplaceColonFrom(xml, pos, label, value) ==
    LET starts == {a \in pos..Len(xml) : ColonMatchAt(xml, a, label).ok}
        Replaced(m) ==
            SubSeq(xml, pos, m.a - 1)
                \o Expand(<<"$", "1", "$", "2">> \o escapeXml(StringOf(value))
                              \o <<"$", "4">>,
                          << <<xml[m.a]>>, SubSeq(xml, m.a + 1, m.g3 - 1),
                             SubSeq(xml, m.g3, m.e - 1), <<xml[m.e]>> >>,
                          SubSeq(xml, m.a, m.e),
                          SubSeq(xml, 1, m.a - 1),
                          SubSeq(xml, m.e + 1, Len(xml)))
                \o ReplaceColonFrom(xml, m.e + 1, label, value)
    IN  IF starts = {} THEN SubSeq(xml, pos, Len(xml))
        ELSE Replaced(ColonMatchAt(xml, Min(starts), label))

\* replaceLabeledContent: the replace call for one label
ReplaceColon(xml, label, value) == ReplaceColonFrom(xml, 1, label, value)

\* where (LABEL[：:]\s*)(_+) matches from p: u is the first underscore, v the
\* first token after the underscores
BlankMatchAt(xml, p, label) ==
    LET u == SkipXmlSpace(xml, p + Len(label) + 1)
    IN  IF /\ TokenAt(xml, p + Len(label)) \in Colons
           /\ SubSeq(xml, p, p + Len(label) - 1) = label
           /\ TokenAt(xml, u) = "_"
        THEN [ok |-> TRUE, p |-> p, u |-> u, v |-> SkipUnderscores(xml, u)]
        ELSE [ok |-> FALSE]

RECURSIVE ReplaceBlankFrom(_, _, _, _)
\* xml.replace(regex, `$1${this.escapeXml(String(value))}`) from pos on
ReplaceBlankFrom(xml, pos, label, value) ==
    LET starts == {p \in pos..Len(xml) : BlankMatchAt(xml, p, label).ok}
        Replaced(m) ==
            SubSeq(xml, pos, m.p - 1)
                \o Expand(<<"$", "1">> \o escapeXml(StringOf(value)),
                          <<SubSeq(xml, m.p, m.u - 1), SubSeq(xml, m.u, m.v - 1)>>,
                          SubSeq(xml, m.p, m.v - 1),
                          SubSeq(xml, 1, m.p - 1),
                          SubSeq(xml, m.v, Len(xml)))
                \o ReplaceBlankFrom(xml, m.v, label, value)
    IN  IF starts = {} THEN SubSeq(xml, pos, Len(xml))
        ELSE Replaced(BlankMatchAt(xml, Min(starts), label))

\* replaceBlankFields: the replace call for one label
ReplaceBlank(xml, label, value) == ReplaceBlankFrom(xml, 1, label, value)

\* the replace call of pass for one label
ReplaceLabel(pass, xml, label, value) ==
    CASE pass = "replaceTableCells" -> ReplaceTable(xml, label, value)
      [] pass = "replaceLabeledContent" -> ReplaceColon(xml, label, value)
      [] pass = "replaceBlankFields" -> ReplaceBlank(xml, label, value)

RECURSIVE ForEachLabel(_, _, _, _, _)
\* for (const [label, value] of ...) { if (value) { xml = xml.replace(...) } }
ForEachLabel(pass, labels, n, xml, data) ==
    IF n > Len(labels) THEN xml
    ELSE CHOOSE out \in
             {ForEachLabel(pass, labels, n + 1, next, data) :
                 next \in {IF Truthy(Get(data, labels[n].field))
                           THEN ReplaceLabel(pass, xml, labels[n].label,
                                             Get(data, labels[n].field))
                           ELSE xml}} : TRUE

replaceTableCells(xml, data) ==
    ForEachLabel("replaceTableCells", tableLabelMap, 1, xml, data)

replaceLabeledContent(xml, data) ==
    ForEachLabel("replaceLabeledContent", colonLabelMap, 1, xml, data)

replaceBlankFields(xml, data) ==
    ForEachLabel("replaceBlankFields", blankPatterns, 1, xml, data)

\* the three inline passes of generateWithSmartReplacement, in order
InlinePasses(xml, data) ==
    replaceBlankFields(replaceLabeledContent(replaceTableCells(xml, data), data), data)

-----------------------------------------------------------------------------
(* TemplateEngine.generateDocument: the appendix and the placeholder strategy *)

\* the text formatDate gives for the current date, as one token
Today == <<"today">>

\* the white space a template literal of the source begins and ends with
\* (the white space between its tags is left out)
Indent == <<"\n">>

\* createParagraph(text, bold, align)
createParagraph(text, bold, align) ==
    Indent
        \o <<"<w:p>", "<w:pPr>",
             CASE align = "center" -> "<w:jc center/>"
               [] align = "right" -> "<w:jc right/>"
               [] OTHER -> "<w:jc left/>",
             "</w:pPr>", "<w:r>", "<w:rPr>", "<w:rFonts/>">>
        \o (IF bold THEN <<"<w:b/>", "<w:bCs/>", "<w:sz 28/>", "<w:szCs 28/>">>
            ELSE <<"<w:sz 24/>", "<w:szCs 24/>">>)
        \o <<"</w:rPr>", "<w:t>">> \o escapeXml(text)
        \o <<"</w:t>", "</w:r>", "</w:p>">> \o Indent

\* the page break pushed first
PageBreak == Indent \o <<"<w:p>", "<w:r>", "<w:br page/>", "</w:r>", "</w:p>">> \o Indent

Plain(text) == createParagraph(text, FALSE, "left")

Heading(text) == createParagraph(text, TRUE, "left")

EmptyParagraph == Plain(<<>>)

RECURSIVE ItemParagraphs(_, _, _)
\* items.forEach(item => { if (item.value) push(`${label}：${value}${unit}`) })
ItemParagraphs(items, n, data) ==
    IF n > Len(items) THEN <<>>
    ELSE (IF Truthy(Get(data, items[n].field))
          THEN <<Plain(items[n].label \o <<"wcolon">>
                           \o StringOf(Get(data, items[n].field))
                           \o items[n].unit)>>
          ELSE <<>>)
             \o ItemParagraphs(items, n + 1, data)

\* the company section, pushed when one of the three gate fields is truthy
CompanySection(data) ==
    IF \E f \in {"companyName", "creditCode", "legalRep"} : Truthy(Get(data, f))
    THEN <<Heading(CompanyTitle), EmptyParagraph>>
             \o ItemParagraphs(companyInfo, 1, data)
             \o (IF Truthy(Get(data, "businessScope"))
                 THEN <<Plain(BusinessScopeLabel
                                  \o StringOf(Get(data, "businessScope")))>>
                 ELSE <<>>)
             \o <<EmptyParagraph>>
    ELSE <<>>

FinancialSection(data) ==
    IF \E f \in {"totalAssetsEnd", "revenueCurrent"} : Truthy(Get(data, f))
    THEN <<Heading(FinancialTitle), EmptyParagraph>>
             \o ItemParagraphs(financialInfo, 1, data) \o <<EmptyParagraph>>
    ELSE <<>>

CreditSection(data) ==
    IF \E f \in {"creditType", "creditAmount"} : Truthy(Get(data, f))
    THEN <<Heading(CreditTitle), EmptyParagraph>>
             \o ItemParagraphs(creditInfo, 1, data) \o <<EmptyParagraph>>
    ELSE <<>>

RECURSIVE Split(_, _)
\* s.split(sep)
Split(s, sep) ==
    LET at == {i \in 1..Len(s) : s[i] = sep}
    IN  IF at = {} THEN <<s>>
        ELSE <<SubSeq(s, 1, Min(at) - 1)>>
                 \o Split(SubSeq(s, Min(at) + 1, Len(s)), sep)

\* a filter that keeps every line
AnyLine(line) == TRUE

\* l.trim() is non-empty
NonBlankLine(line) == \E i \in 1..Len(line) : line[i] \notin XmlSpace

RECURSIVE LineParagraphs(_, _)
\* one indented paragraph per line that is kept
LineParagraphs(lines, n) ==
    IF n > Len(lines) THEN <<>>
    ELSE (IF NonBlankLine(lines[n])
          THEN <<Plain(<<" ", " ", " ", " ">> \o lines[n])>>
          ELSE <<>>)
             \o LineParagraphs(lines, n + 1)

RECURSIVE TextSectionsFrom(_, _)
\* for (const section of textSections) { if (data[section.field]) ... }
TextSectionsFrom(n, data) ==
    IF n > Len(textSections) THEN <<>>
    ELSE (IF Truthy(Get(data, textSections[n].field))
          THEN <<Heading(textSections[n].title), EmptyParagraph>>
                   \o LineParagraphs(Split(Get(data, textSections[n].field).s, "\n"), 1)
                   \o <<EmptyParagraph>>
          ELSE <<>>)
             \o TextSectionsFrom(n + 1, data)

\* data[section.field].split is not a function: a truthy narrative value that
\* is not a string makes createFilledContentSection throw
NarrativeThrows(data) ==
    \E n \in 1..Len(textSections) :
        /\ Truthy(Get(data, textSections[n].field))
        /\ Get(data, textSections[n].field).k # "str"

RECURSIVE Join(_, _)
\* sections.join(sep)
Join(sections, sep) ==
    IF sections = <<>> THEN <<>>
    ELSE IF Len(sections) = 1 THEN sections[1]
    ELSE sections[1] \o sep \o Join(Tail(sections), sep)

\* the paragraphs of createFilledContentSection, after the page break
SectionParagraphs(data) ==
    <<createParagraph(SummaryTitle, TRUE, "center"), EmptyParagraph>>
        \o CompanySection(data) \o FinancialSection(data) \o CreditSection(data)
        \o TextSectionsFrom(1, data)
        \o <<EmptyParagraph, createParagraph(ReportDateLabel \o Today, FALSE, "right")>>

createFilledContentSection(data) ==
    Join(<<PageBreak>> \o SectionParagraphs(data), <<"\n">>)

\* xml.lastIndexOf('</w:body>'), 0 for -1
LastBodyEnd(xml) ==
    LET at == {i \in 1..Len(xml) : xml[i] = "</w:body>"}
    IN  IF at = {} THEN 0 ELSE MaxOf(at)

\* appendFilledContent: xml itself when it has no </w:body>
appendFilledContent(xml, data) ==
    IF LastBodyEnd(xml) = 0 THEN xml
    ELSE SubSeq(xml, 1, LastBodyEnd(xml) - 1) \o createFilledContentSection(data)
             \o SubSeq(xml, LastBodyEnd(xml), Len(xml))

RECURSIVE Grouped(_)
\* the digits of an integer with a comma before every group of three
Grouped(ds) ==
    IF Len(ds) <= 3 THEN ds
    ELSE Grouped(SubSeq(ds, 1, Len(ds) - 3)) \o <<",">>
             \o SubSeq(ds, Len(ds) - 2, Len(ds))

\* Math.round(value * 100) / 100
Round2(v) ==
    IF v.e <= 2 THEN v
    ELSE Norm((2 * v.m + Pow10(v.e - 2)) \div (2 * Pow10(v.e - 2)), 2)

\* rounded.toLocaleString('zh-CN')
LocaleText(v) ==
    (IF v.m < 0 THEN <<"-">> ELSE <<>>)
        \o Grouped(NatText(Abs(v.m) \div Pow10(v.e)))
        \o (IF v.e = 0 THEN <<>>
            ELSE <<".">> \o PadLeft(NatText(Abs(v.m) % Pow10(v.e)), v.e))

formatNumber(value) == IF value = NaN THEN <<>> ELSE LocaleText(Round2(value))

\* prepareDataForTemplate: every key of data with its value as a string, and
\* the two date keys
prepareDataForTemplate(data) ==
    [key \in DOMAIN data \cup {"currentDate", "reportDate"} |->
        IF key \in {"currentDate", "reportDate"} THEN Str(Today)
        ELSE IF data[key] \in {Null, Undefined} THEN Str(<<>>)
        ELSE IF data[key].k \in {"num", "nan"} THEN Str(formatNumber(data[key]))
        ELSE data[key]]

\* what docxtemplater puts in for a tag the data has no value for: no
\* nullGetter is passed to the constructor, so the library's own is used,
\* which returns the string "undefined" for a plain tag
nullGetter == <<"u", "n", "d", "e", "f", "i", "n", "e", "d">>

\* the value of the tag named name (an identifier is one token)
TagValue(name, prepared) ==
    IF Len(name) = 1 /\ name[1] \in DOMAIN prepared
    THEN escapeXml(prepared[name[1]].s)
    ELSE nullGetter

RenderFail == [ok |-> FALSE]

RECURSIVE RenderFrom(_, _, _)
\* doc.render(preparedData) with the delimiters { and }: a tag runs from a {
\* to the next }, the tags of the markup inside it are kept after its value;
\* a { inside a tag or without a }, and a } without a {, make render throw.
\* (Tags with a prefix, loops and conditions, are not in the templates.)
RenderFrom(xml, i, prepared) ==
    LET braces == {j \in (i + 1)..Len(xml) : xml[j] \in {"{", "}"}}
        Inner(j) == SelectSeq(SubSeq(xml, i + 1, j - 1), LAMBDA t : t \notin Tags)
        Markup(j) == SelectSeq(SubSeq(xml, i + 1, j - 1), LAMBDA t : t \in Tags)
        After(head, rest) ==
            IF rest.ok THEN [ok |-> TRUE, xml |-> head \o rest.xml] ELSE RenderFail
        Tag(j) ==
            IF xml[j] = "{" THEN RenderFail
            ELSE After(TagValue(Inner(j), prepared) \o Markup(j),
                       RenderFrom(xml, j + 1, prepared))
    IN  IF i > Len(xml) THEN [ok |-> TRUE, xml |-> <<>>]
        ELSE IF xml[i] = "}" THEN RenderFail
        ELSE IF xml[i] = "{"
        THEN IF braces = {} THEN RenderFail ELSE Tag(Min(braces))
        ELSE After(<<xml[i]>>, RenderFrom(xml, i + 1, prepared))

Render(xml, prepared) == RenderFrom(xml, 1, prepared)

-----------------------------------------------------------------------------
(* TemplateEngine.generateDocument: the packages and the call *)

\* a zip package, as far as generation goes: whether it has the entry
\* word/document.xml, and the entry's text
Package(xml) == [present |-> TRUE, xml |-> xml]

NoDocument == [present |-> FALSE, xml |-> <<>>]

\* the place of the package passed to generateDocument among the zip objects
TemplateZip == 1

\* a clone that shares the files of the package it is made from
cloneShared(heap, id) == [heap |-> heap, id |-> id]

\* templateZip.clone(): a new zip object with a copy of the entries
clone(heap, id) == [heap |-> Append(heap, heap[id]), id |-> Len(heap) + 1]

NoResult == [k |-> "none"]

Threw == [k |-> "threw"]

\* the blob zip.generate() makes, by the word/document.xml in it
Returned(xml) == [k |-> "returned", xml |-> xml]

\* a call's outcome: the zip objects after it, what it returned or that it
\* threw, and the markup the inline passes left
Outcome(heap, out, inline) == [heap |-> heap, out |-> out, inline |-> inline]

\* zip.file('word/document.xml', xml)
WriteDocument(heap, id, xml) == [heap EXCEPT ![id] = Package(xml)]

generateWithDocxtemplater(heap, id, data) ==
    LET Rendered(r) ==
            IF r.ok THEN Outcome(WriteDocument(heap, id, r.xml), Returned(r.xml), <<>>)
            ELSE Outcome(heap, Threw, <<>>)
    IN  Rendered(Render(heap[id].xml, prepareDataForTemplate(data)))

generateWithSmartReplacement(heap, id, data, xml) ==
    LET Written(modified, inline) ==
            Outcome(WriteDocument(heap, id, modified), Returned(modified), inline)
        Appended(inline) ==
            IF LastBodyEnd(inline) # 0 /\ NarrativeThrows(data)
            THEN Outcome(heap, Threw, inline)
            ELSE Written(appendFilledContent(inline, data), inline)
    IN  Appended(InlinePasses(xml, data))

\* generateDocument(templateZip, data): zip.file(...) is null for a package
\* without the entry and .asText() throws; whatever is thrown is caught and
\* thrown again as one Error
generateDocument(heap, data) ==
    LET Cloned(c) ==
            IF ~c.heap[c.id].present THEN Outcome(c.heap, Threw, <<>>)
            ELSE IF hasPlaceholders(c.heap[c.id].xml)
            THEN generateWithDocxtemplater(c.heap, c.id, data)
            ELSE generateWithSmartReplacement(c.heap, c.id, data, c.heap[c.id].xml)
    IN  Cloned(clone(heap, TemplateZip))

MaxParts == 2

\* a table cell and a paragraph with one run each
Cell(text) ==
    <<"<w:tc>", "<w:p>", "<w:r>", "<w:t>">> \o text
        \o <<"</w:t>", "</w:r>", "</w:p>", "</w:tc>">>

Para(text) == <<"<w:p>", "<w:r>", "<w:t>">> \o text \o <<"</w:t>", "</w:r>", "</w:p>">>

\* the parts the document bodies are put together from
PartPool == {
    \* 企业名称 | __
    Cell(<<"qi3", "ye", "ming", "cheng1">>) \o Cell(<<"_", "_">>),
    \* 企业名称 | A
    Cell(<<"qi3", "ye", "ming", "cheng1">>) \o Cell(<<"A">>),
    \* 法定代表人 | _
    Cell(<<"fa", "ding", "dai", "biao", "ren">>) \o Cell(<<"_">>),
    \* 企业名称：__
    Para(<<"qi3", "ye", "ming", "cheng1", "wcolon", "_", "_">>),
    \* 企业名称: and one space
    Para(<<"qi3", "ye", "ming", "cheng1", ":", " ">>),
    \* 净利润：_
    Para(<<"jing", "li", "run", "wcolon", "_">>),
    Para(<<"{", "a", "}">>),
    Para(<<"{">>)
}

Body(parts, closed) ==
    <<"<w:body>">> \o Concat(parts) \o (IF closed THEN <<"</w:body>">> ELSE <<>>)

\* the packages: a body of parts with or without its closing tag, and a
\* package without word/document.xml
Packages ==
    {Package(Body(parts, closed)) :
        parts \in SeqsUpTo(PartPool, 0, MaxParts), closed \in BOOLEAN}
        \cup {NoDocument}

\* a field and a value for it
Facts == {
    <<"companyName", Str(<<"A">>)>>,
    <<"companyName", Str(<<"<", "&">>)>>,
    <<"companyName", Str(<<"$", "<">>)>>,
    <<"legalRep", Str(<<"B">>)>>,
    <<"registeredCapital", Str(<<"9">>)>>,
    <<"netProfitCurrent", Num(5)>>,
    <<"creditPeriod", Str(<<"6">>)>>,
    <<"basicSituation", Str(<<"a", "\n", " ", "\n", "b">>)>>,
    <<"creditSuggestion", Str(<<"'">>)>>,
    <<"a", Str(<<"A">>)>>,
    <<"a", Null>>
}

\* the object with the fields of facts
DataOf(facts) ==
    [field \in {f[1] : f \in facts} |-> (CHOOSE f \in facts : f[1] = field)[2]]

\* the Document Contexts: no field, one, or two
Contexts ==
    {DataOf({})} \cup
        UNION {{DataOf({f, g}) : g \in {h \in Facts : h[1] # f[1] \/ h = f}} :
                  f \in Facts}

GenInit ==
    /\ original \in Packages
    /\ zips = <<original>>
    /\ documentData \in Contexts
    /\ generated = NoResult
    /\ inlineXml = <<>>

GenIdle ==
    /\ original = NoDocument
    /\ zips = <<>>
    /\ documentData = DataOf({})
    /\ generated = [k |-> "idle"]
    /\ inlineXml = <<>>

\* templateEngine.generateDocument(templateZip, data) is called
CallGenerateDocument ==
    /\ generated = NoResult
    /\ \E o \in {generateDocument(<<zips[TemplateZip]>>, documentData)} :
           /\ zips' = o.heap
           /\ generated' = o.out
           /\ inlineXml' = o.inline
    /\ UNCHANGED <<original, documentData>>
    /\ UNCHANGED <<numVars, exVars, filesVars, bizVars, tplVars, uiVars, apiVars>>

\* the fields in which two Document Contexts differ
Changed(d, e) == {f \in DOMAIN d \cup DOMAIN e : Get(d, f) # Get(e, f)}

\* setDocumentData(data) for the next report, the form changed in one field;
\* what the call before returned has been handed over and its clone is no
\* longer referenced
SetDocumentData ==
    /\ generated.k \in {"threw", "returned"}
    /\ \E d \in Contexts :
           /\ Cardinality(Changed(d, documentData)) = 1
           /\ documentData' = d
    /\ zips' = <<zips[TemplateZip]>>
    /\ generated' = NoResult
    /\ inlineXml' = <<>>
    /\ UNCHANGED original
    /\ UNCHANGED <<numVars, exVars, filesVars, bizVars, tplVars, uiVars, apiVars>>

-----------------------------------------------------------------------------
(* UIController: the upload handlers, removeFile, restart, generateReport and
   downloadReport. A file is named by the number of the upload that handed it
   over, a field of fileParser by the upload it was parsed from, a generated
   document by the generateReport call that produced it. *)

MaxUploads == 3

MaxReports == 2

File(n) == [k |-> "file", upload |-> n]

ParsedFrom(n) == [k |-> "parsed", upload |-> n]

Blob(n) == [k |-> "blob", report |-> n]

\* this.files = { template: null, financial: [], business: null }
NoFiles == [template |-> Null, financial |-> <<>>, business |-> Null]

\* templateContent, templateZip, financialData and businessInfo are null
Cleared == [templateZip |-> Null, financialData |-> Null, businessInfo |-> Null]

NoReport == [k |-> "none"]

\* showToast(..., 'warning'): nothing is handed to saveAs
Warned == [k |-> "warning"]

UiInit ==
    /\ uiFiles = NoFiles
    /\ toStep2Disabled = TRUE
    /\ parser = Cleared
    /\ uploads = 0
    /\ ocrCalls = {}
    /\ generatedDocument = Null
    /\ reports = 0
    /\ lastReport = NoReport
    /\ delivered = Pending

UiIdle == UiInit

allFilesUploaded(f) ==
    f.template # Null /\ Len(f.financial) > 0 /\ f.business # Null

\* updateNavigationState(): the value toStep2Btn.disabled gets
updateNavigationState(f) == ~allFilesUploaded(f)

\* handleTemplateUpload(file) when parseWordTemplate has settled: it resolved,
\* or it rejected after this.templateZip was set, or it rejected before
HandleTemplateUpload ==
    /\ uploads < MaxUploads
    /\ uploads' = uploads + 1
    /\ \E settled \in {"resolved", "zip", "rejected"} :
           /\ parser' = IF settled = "rejected" THEN parser
                        ELSE [parser EXCEPT !.templateZip = ParsedFrom(uploads')]
           /\ uiFiles' = IF settled = "resolved"
                         THEN [uiFiles EXCEPT !.template = File(uploads')]
                         ELSE uiFiles
           /\ toStep2Disabled' = IF settled = "resolved"
                                 THEN updateNavigationState(uiFiles')
                                 ELSE toStep2Disabled
    /\ UNCHANGED <<ocrCalls, generatedDocument, reports, lastReport, delivered>>
    /\ UNCHANGED <<numVars, exVars, filesVars, bizVars, tplVars, genVars, apiVars>>

\* handleFinancialUpload(files) when parseExcelFiles has settled; files holds
\* one file or two
HandleFinancialUpload ==
    /\ uploads < MaxUploads
    /\ uploads' = uploads + 1
    /\ \E resolved \in BOOLEAN, n \in 1..2 :
           IF resolved
           THEN /\ parser' = [parser EXCEPT !.financialData = ParsedFrom(uploads')]
                /\ uiFiles' = [uiFiles EXCEPT
                                   !.financial = [i \in 1..n |-> File(uploads')]]
                /\ toStep2Disabled' = updateNavigationState(uiFiles')
           ELSE UNCHANGED <<parser, uiFiles, toStep2Disabled>>
    /\ UNCHANGED <<ocrCalls, generatedDocument, reports, lastReport, delivered>>
    /\ UNCHANGED <<numVars, exVars, filesVars, bizVars, tplVars, genVars, apiVars>>

\* handleBusinessUpload(file) when parseImageToBase64 has settled: the file is
\* recorded and, with an API key configured, callOCR is awaited
HandleBusinessUpload ==
    /\ uploads < MaxUploads
    /\ uploads' = uploads + 1
    /\ \E resolved \in BOOLEAN, siliconflowApiKey \in BOOLEAN :
           /\ uiFiles' = IF resolved
                         THEN [uiFiles EXCEPT !.business = File(uploads')]
                         ELSE uiFiles
           /\ IF resolved /\ siliconflowApiKey
              THEN /\ ocrCalls' = ocrCalls \cup {uploads'}
                   /\ UNCHANGED toStep2Disabled
              ELSE /\ toStep2Disabled' = updateNavigationState(uiFiles')
                   /\ UNCHANGED ocrCalls
    /\ UNCHANGED <<parser, generatedDocument, reports, lastReport, delivered>>
    /\ UNCHANGED <<numVars, exVars, filesVars, bizVars, tplVars, genVars, apiVars>>

\* handleBusinessUpload goes on when its callOCR has settled: parseBusinessInfo
\* stores the profile of the response, a failed call only shows a toast
OcrSettles ==
    /\ \E n \in ocrCalls, resolved \in BOOLEAN :
           /\ ocrCalls' = ocrCalls \ {n}
           /\ parser' = IF resolved
                        THEN [parser EXCEPT !.businessInfo = ParsedFrom(n)]
                        ELSE parser
    /\ toStep2Disabled' = updateNavigationState(uiFiles)
    /\ UNCHANGED <<uiFiles, uploads, generatedDocument, reports, lastReport,
                   delivered>>
    /\ UNCHANGED <<numVars, exVars, filesVars, bizVars, tplVars, genVars, apiVars>>

\* removeFile(type)
RemoveFile ==
    /\ \E type \in {"template", "financial", "business"} :
           uiFiles' = [uiFiles EXCEPT
                           ![type] = IF type = "financial" THEN <<>> ELSE Null]
    /\ toStep2Disabled' = updateNavigationState(uiFiles')
    /\ UNCHANGED <<parser, uploads, ocrCalls, generatedDocument, reports,
                   lastReport, delivered>>
    /\ UNCHANGED <<numVars, exVars, filesVars, bizVars, tplVars, genVars, apiVars>>

\* restart(): fileParser.clear(), templateEngine.clear(), this.files reset,
\* the inputs and the forms emptied, goToStep(1)
Restart ==
    /\ parser' = Cleared
    /\ uiFiles' = NoFiles
    /\ lastReport' = NoReport
    /\ delivered' = Pending
    /\ UNCHANGED <<toStep2Disabled, uploads, ocrCalls, generatedDocument, reports>>
    /\ UNCHANGED <<numVars, exVars, filesVars, bizVars, tplVars, genVars, apiVars>>

\* generateReport(): without a template zip it throws, and generateDocument
\* may throw; the catch block only shows a toast
GenerateReport ==
    /\ reports < MaxReports
    /\ reports' = reports + 1
    /\ \E rendered \in BOOLEAN :
           IF parser.templateZip # Null /\ rendered
           THEN /\ generatedDocument' = Blob(reports')
                /\ lastReport' = Blob(reports')
           ELSE /\ lastReport' = Threw
                /\ UNCHANGED generatedDocument
    /\ delivered' = Pending
    /\ UNCHANGED <<uiFiles, toStep2Disabled, parser, uploads, ocrCalls>>
    /\ UNCHANGED <<numVars, exVars, filesVars, bizVars, tplVars, genVars, apiVars>>

\* downloadReport(): the warning, or saveAs(this.generatedDocument, fileName)
DownloadReport ==
    /\ delivered = Pending
    /\ delivered' = IF generatedDocument = Null THEN Warned ELSE generatedDocument
    /\ UNCHANGED <<uiFiles, toStep2Disabled, parser, uploads, ocrCalls,
                   generatedDocument, reports, lastReport>>
    /\ UNCHANGED <<numVars, exVars, filesVars, bizVars, tplVars, genVars, apiVars>>

-----------------------------------------------------------------------------
(* ApiService.generateAllContent, generateContent, callDeepSeek *)

\* const fields = [...]
contentFields == <<"basicSituation", "controllerSituation", "businessStatus",
            "marketAnalysis", "financialOverview", "financialIndicators",
            "creditRisk", "marketRisk", "overallEvaluation",
            "creditSuggestion">>

\* data.choices[0]?.message?.content of the responses that are answered
Contents == {<<>>, <<"\n", "A", " ">>}

\* results[field] = text: a new key is added after the keys there are
SetResult(rs, field, text) ==
    IF \E i \in 1..Len(rs) : rs[i][1] = field
    THEN [i \in 1..Len(rs) |-> IF rs[i][1] = field THEN <<field, text>> ELSE rs[i]]
    ELSE Append(rs, <<field, text>>)

Rejected == [k |-> "rejected"]

\* an error thrown in the loop body and not caught rejects the promise
Rethrown(rs, field) == [results |-> rs, out |-> Rejected]

\* catch (error) { results[field] = '' }: the loop goes on
Caught(rs, field) == [results |-> SetResult(rs, field, <<>>), out |-> Pending]

ApiInit ==
    /\ fieldAt = 1
    /\ results = <<>>
    /\ inFlight = {}
    /\ requested = <<>>
    /\ waiting = "none"
    /\ allOut = Pending

ApiIdle ==
    /\ fieldAt = 1
    /\ results = <<>>
    /\ inFlight = {}
    /\ requested = <<>>
    /\ waiting = "none"
    /\ allOut = [k |-> "idle"]

\* the loop takes the next field: generateContent calls callDeepSeek, which
\* throws without an API key and else sends the request and awaits it
RequestField ==
    /\ allOut = Pending
    /\ waiting = "none"
    /\ fieldAt <= Len(contentFields)
    /\ \E deepseekApiKey \in BOOLEAN :
           IF deepseekApiKey
           THEN /\ inFlight' = inFlight \cup {contentFields[fieldAt]}
                /\ requested' = Append(requested, contentFields[fieldAt])
                /\ waiting' = "fetch"
                /\ UNCHANGED <<fieldAt, results, allOut>>
           ELSE /\ \E c \in {Caught(results, contentFields[fieldAt])} :
                       /\ results' = c.results
                       /\ allOut' = c.out
                /\ fieldAt' = fieldAt + 1
                /\ UNCHANGED <<inFlight, requested, waiting>>
    /\ UNCHANGED <<numVars, exVars, filesVars, bizVars, tplVars, genVars, uiVars>>

\* the awaited request settles: answered with a content, which is trimmed and
\* stored before the delay is awaited, or failed (fetch rejected, the status
\* was not ok, or the body was not of the expected shape)
ResponseArrives ==
    /\ allOut = Pending
    /\ waiting = "fetch"
    /\ inFlight' = inFlight \ {contentFields[fieldAt]}
    /\ \E answered \in BOOLEAN, content \in Contents :
           IF answered
           THEN /\ results' = SetResult(results, contentFields[fieldAt], Trim(content))
                /\ waiting' = "delay"
                /\ UNCHANGED <<fieldAt, allOut>>
           ELSE /\ \E c \in {Caught(results, contentFields[fieldAt])} :
                       /\ results' = c.results
                       /\ allOut' = c.out
                /\ fieldAt' = fieldAt + 1
                /\ waiting' = "none"
    /\ UNCHANGED requested
    /\ UNCHANGED <<numVars, exVars, filesVars, bizVars, tplVars, genVars, uiVars>>

\* the 500 ms delay between two requests has passed
DelayElapses ==
    /\ allOut = Pending
    /\ waiting = "delay"
    /\ fieldAt' = fieldAt + 1
    /\ waiting' = "none"
    /\ UNCHANGED <<results, inFlight, requested, allOut>>
    /\ UNCHANGED <<numVars, exVars, filesVars, bizVars, tplVars, genVars, uiVars>>

\* return results
ReturnResults ==
    /\ allOut = Pending
    /\ waiting = "none"
    /\ fieldAt > Len(contentFields)
    /\ allOut' = [k |-> "resolved", val |-> results]
    /\ UNCHANGED <<fieldAt, results, inFlight, requested, waiting>>
    /\ UNCHANGED <<numVars, exVars, filesVars, bizVars, tplVars, genVars, uiVars>>

-----------------------------------------------------------------------------
(* Specifications: one per component, the other components idle *)

NumNext == CallParseNumber

NumberInit == NumInit /\ ExIdle /\ FilesIdle /\ BizIdle /\ TplIdle /\ GenIdle
    /\ UiIdle /\ ApiIdle

SpecNumber == NumberInit /\ [][NumNext]_vars

ExNext == ScanCellStep \/ DeriveStep

ExtractInit == ExInit /\ NumIdle /\ FilesIdle /\ BizIdle /\ TplIdle /\ GenIdle
    /\ UiIdle /\ ApiIdle

SpecExtract == ExtractInit /\ [][ExNext]_vars

FilesNext ==
    StartFile \/ FileParsed \/ FileFailed \/ FinishFiles \/ CallGetFinancialSummary

ParseFilesInit == FilesInit /\ NumIdle /\ ExIdle /\ BizIdle /\ TplIdle /\ GenIdle
    /\ UiIdle /\ ApiIdle

SpecFiles == ParseFilesInit /\ [][FilesNext]_vars

BizNext ==
    CallParseBusinessInfo \/ CallParseBusinessInfoFromText \/ CallGetBusinessInfo

BusinessInit == BizInit /\ NumIdle /\ ExIdle /\ FilesIdle /\ TplIdle /\ GenIdle
    /\ UiIdle /\ ApiIdle

SpecBusiness == BusinessInit /\ [][BizNext]_vars

TplNext == SetOriginalZip \/ AnalyzeTemplate \/ GenerateDocument

TemplateInit == TplInit /\ NumIdle /\ ExIdle /\ FilesIdle /\ BizIdle /\ GenIdle
    /\ UiIdle /\ ApiIdle

SpecTemplate == TemplateInit /\ [][TplNext]_vars

GenNext == CallGenerateDocument \/ SetDocumentData

GenerateInit == GenInit /\ NumIdle /\ ExIdle /\ FilesIdle /\ BizIdle /\ TplIdle
    /\ UiIdle /\ ApiIdle

SpecGenerate == GenerateInit /\ [][GenNext]_vars

UiNext ==
    \/ HandleTemplateUpload
    \/ HandleFinancialUpload
    \/ HandleBusinessUpload
    \/ OcrSettles
    \/ RemoveFile
    \/ Restart
    \/ GenerateReport
    \/ DownloadReport

ControllerInit == UiInit /\ NumIdle /\ ExIdle /\ FilesIdle /\ BizIdle /\ TplIdle
    /\ GenIdle /\ ApiIdle

SpecUI == ControllerInit /\ [][UiNext]_vars

ApiNext == RequestField \/ ResponseArrives \/ DelayElapses \/ ReturnResults

ContentInit == ApiInit /\ NumIdle /\ ExIdle /\ FilesIdle /\ BizIdle /\ TplIdle
    /\ GenIdle /\ UiIdle

SpecApi == ContentInit /\ [][ApiNext]_vars

SummaryNext == CallGetFinancialSummary

SummaryInit == ParsedInit /\ NumIdle /\ ExIdle /\ BizIdle /\ TplIdle /\ GenIdle
    /\ UiIdle /\ ApiIdle

SpecSummary == SummaryInit /\ [][SummaryNext]_vars

-----------------------------------------------------------------------------
(* Claims *)

Present(v) == v # Undefined

BaseBalanceKeys == {balanceSheetTerms[t].key : t \in 1..Len(balanceSheetTerms)}

\* C1: within one Financial Record, a base metric key that holds a non-zero
\* value is never changed again, by a later cell, row or sheet or by another
\* extractFinancialData call on the same grid: the first label match wins.
C1_FirstMatchWins ==
    [][/\ \A k \in BaseBalanceKeys :
            Truthy(result.balanceSheet[k])
                => result'.balanceSheet[k] = result.balanceSheet[k]
       /\ \A k \in IncomeKeys :
            Truthy(result.incomeStatement[k])
                => result'.incomeStatement[k] = result.incomeStatement[k]]_vars

\* the scan has passed a later label of totalAssets with another value (2,000)
\* and the record keeps the first one
C1_Witness ==
    /\ cursor.phase = "done"
    /\ result.balanceSheet["totalAssets"] = Num(1000)
    /\ \E sh \in 1..Len(workbook) : \E i \in 1..Len(workbook[sh]) :
           /\ Len(workbook[sh][i]) = 2
           /\ parseNumber(workbook[sh][i][2]) = Num(2000)
           /\ Includes(workbook[sh][i][1].s, <<"zong", "zi", "chan">>)

\* C2: in the record extractFinancialData leaves, each derived ratio is
\* present if and only if its base metrics are present in that record with a
\* non-zero denominator: debtRatio iff totalAssets and totalLiabilities,
\* currentRatio and quickRatio iff currentAssets and currentLiabilities, roe
\* iff netProfit and ownerEquity.
C2_RatiosIffBases ==
    cursor.phase = "done" =>
        LET bs == result.balanceSheet
            inc == result.incomeStatement
        IN  /\ Present(bs["debtRatio"])
                <=> Truthy(bs["totalAssets"]) /\ Present(bs["totalLiabilities"])
            /\ Present(bs["currentRatio"])
                <=> Present(bs["currentAssets"]) /\ Truthy(bs["currentLiabilities"])
            /\ Present(bs["quickRatio"])
                <=> Present(bs["currentAssets"]) /\ Truthy(bs["currentLiabilities"])
            /\ Present(bs["roe"])
                <=> Present(inc["netProfit"]) /\ Truthy(bs["ownerEquity"])

\* the values the equity labels of the workbook lead to: for every cell with
\* an ownerEquity label, the non-zero number the label search finds for it
EquityLabelValues ==
    LET Labelled(sheetData, c) ==
            MatchTerms(EmptyResult.balanceSheet, balanceSheetTerms, 1,
                       Trim(TextOf(sheetData[c.i][c.col])),
                       sheetData, c.i, c.col)["ownerEquity"]
        InSheet(sheetData, cells) ==
            {Labelled(sheetData, cells[n]) : n \in 1..Len(cells)}
    IN  {v \in UNION {InSheet(workbook[sh], CellsFrom(workbook[sh], 1, 1)) :
                         sh \in 1..Len(workbook)} : Truthy(v)}

\* C3: in the record of one file, ownerEquity is totalAssets - totalLiabilities
\* only when assets and liabilities were extracted and no sheet of the file
\* has an equity label with a non-zero value; when there is such a label,
\* ownerEquity is the labelled value.
C3_EquityInferredOnlyIfUnlabelled ==
    cursor.phase = "done" =>
        LET bs == result.balanceSheet
        IN  IF EquityLabelValues # {}
            THEN bs["ownerEquity"] \in EquityLabelValues
            ELSE IF Truthy(bs["totalAssets"]) /\ Truthy(bs["totalLiabilities"])
            THEN bs["ownerEquity"] = Minus(bs["totalAssets"], bs["totalLiabilities"])
            ELSE ~Present(bs["ownerEquity"])

\* C3, the example: assets 1000, liabilities 600 and no equity label give
\* debtRatio "60.00" and ownerEquity 400.
C3_Example ==
    /\ cursor.phase = "done"
    /\ EquityLabelValues = {}
    /\ result.balanceSheet["totalAssets"] = Num(1000)
    /\ result.balanceSheet["totalLiabilities"] = Num(600)
    => /\ result.balanceSheet["debtRatio"] = Str(<<"6", "0", ".", "0", "0">>)
       /\ result.balanceSheet["ownerEquity"] = Num(400)

\* the year of an entry as the claim counts it: no year counts as year 0
YearOfEntry(entry) == IF entry.year = Null THEN 0 ELSE entry.year.m

Ascending(entries) ==
    /\ \A i, j \in 1..Len(entries) :
           i < j => YearOfEntry(entries[i]) <= YearOfEntry(entries[j])
    /\ \A i, j \in 1..Len(entries) :
           entries[i].year = Null /\ YearOfEntry(entries[j]) > 0 => i < j

OkFiles == {k \in 1..Len(files) : files[k].fate = "ok"}

\* entries is, as a multiset, the entries Entry(_) of the files that were
\* parsed
EntriesOfOkFiles(entries, Entry(_)) ==
    /\ Len(entries) = Cardinality(OkFiles)
    /\ \A i \in 1..Len(entries) :
           Cardinality({j \in 1..Len(entries) : entries[j] = entries[i]})
               = Cardinality({k \in OkFiles : Entry(ParsedFile(files[k])) = entries[i]})

\* C6: parseExcelFiles reads the files one at a time in list order and never
\* rejects because a file fails: whatever files fail to be read or parsed,
\* the result holds exactly the entries of the other files, and a failed file
\* contributes nothing to balanceSheet, incomeStatement or rawData.
C6_FailureIsolated ==
    /\ filesOut # "rejected"
    /\ reading => fileIdx <= Len(files)
    /\ filesOut = "pending" =>
           \* so far, the entries of the parsed files before fileIdx, in list order
           /\ Len(allData.balanceSheet) = Cardinality({k \in OkFiles : k < fileIdx})
           /\ \A i \in 1..Len(allData.balanceSheet) :
                  \E k \in OkFiles :
                      /\ Cardinality({h \in OkFiles : h <= k}) = i
                      /\ allData.balanceSheet[i] = BalanceEntry(ParsedFile(files[k]))
                      /\ allData.incomeStatement[i] = IncomeEntry(ParsedFile(files[k]))
    /\ filesOut = "resolved" =>
           /\ EntriesOfOkFiles(allData.balanceSheet, BalanceEntry)
           /\ EntriesOfOkFiles(allData.incomeStatement, IncomeEntry)
           /\ \A y \in DOMAIN allData.rawData :
                  \E k \in OkFiles : allData.rawData[y] = ParsedFile(files[k])

\* the first file fails, the second is parsed: the result holds the second
C6_Witness ==
    /\ filesOut = "resolved"
    /\ Len(files) = 2
    /\ files[1].fate = "corrupt"
    /\ files[2].fate = "ok"
    /\ allData.balanceSheet = <<BalanceEntry(ParsedFile(files[2]))>>
    /\ DOMAIN allData.rawData = {2023}

\* C4: parseNumber recovers the value of the unformatted literal from every
\* string got from it by inserting thousands separators, white space and
\* unit glyphs; it returns a number input unchanged; and it returns null,
\* never 0, for null, undefined and the empty string.
C4_ParseNumber ==
    numOut # Pending =>
        /\ numLit # NoLit => numOut = LiteralValue(numLit)
        /\ IsNumber(numIn) => numOut = numIn
        /\ numIn \in {Null, Undefined, Str(<<>>)} => numOut = Null /\ numOut # Num(0)

\* a negative decimal with a full-width comma inside it has been parsed
C4_Witness ==
    /\ numOut # Pending
    /\ numLit # NoLit
    /\ \E i \in 2..(Len(numIn.s) - 1) : numIn.s[i] = "wcomma"
    /\ numOut = Norm(-77, 1)

\* the spans of s from a "{" to a later "}" that JSON.parse accepts
ParsableSpans(s) ==
    {sp \in {SubSeq(s, i, j) : i \in 1..Len(s), j \in 1..Len(s)} :
        /\ Len(sp) >= 2
        /\ sp[1] = "{"
        /\ sp[Len(sp)] = "}"
        /\ JSONparse(sp).ok}

\* getBusinessInfo, called after a parse call, returns what that call returned
GetReturnsParsed ==
    CallGetBusinessInfo /\ infoOut # Pending => infoGot' = infoOut

\* C7: parseBusinessInfo returns the parsed JSON object when the transcript
\* contains a span from a "{" to a "}" that parses as JSON, and the result of
\* the regex fallback when it contains none; in both cases the returned
\* object is what getBusinessInfo returns afterwards.
C7_AnyParsableSpan ==
    [][/\ CallParseBusinessInfo =>
              IF ParsableSpans(ocrResult) # {}
              THEN infoOut' \in {JSONparse(sp).val : sp \in ParsableSpans(ocrResult)}
              ELSE infoOut' = parseBusinessInfoFromText(ocrResult)
       /\ GetReturnsParsed]_vars

\* what parseBusinessInfo does: it returns the parsed JSON object when the
\* span from the first "{" of the transcript to its last "}" parses as JSON,
\* and the result of the regex fallback when the transcript has no "{" with
\* a "}" after it or parsing that span throws; the returned object is what
\* getBusinessInfo returns afterwards.
OuterSpanParsed ==
    [][/\ CallParseBusinessInfo =>
              IF \E i, j \in 1..Len(ocrResult) :
                     /\ i < j
                     /\ ocrResult[i] = "{"
                     /\ \A h \in 1..(i - 1) : ocrResult[h] # "{"
                     /\ ocrResult[j] = "}"
                     /\ \A h \in (j + 1)..Len(ocrResult) : ocrResult[h] # "}"
                     /\ JSONparse(SubSeq(ocrResult, i, j)).ok
              THEN \E i, j \in 1..Len(ocrResult) :
                     /\ i < j
                     /\ ocrResult[i] = "{"
                     /\ \A h \in 1..(i - 1) : ocrResult[h] # "{"
                     /\ ocrResult[j] = "}"
                     /\ \A h \in (j + 1)..Len(ocrResult) : ocrResult[h] # "}"
                     /\ JSONparse(SubSeq(ocrResult, i, j)).ok
                     /\ infoOut' = JSONparse(SubSeq(ocrResult, i, j)).val
              ELSE infoOut' = parseBusinessInfoFromText(ocrResult)
       /\ GetReturnsParsed]_vars

\* a nested object has been parsed from the outer span and read back
NestedObjectParsed ==
    /\ infoOut = Obj(<< << <<"b">>, Obj(<< << <<"a">>, Num(1) >> >>) >> >>)
    /\ infoGot = infoOut
    /\ businessInfo = infoOut

RECURSIVE Lines(_)
\* the lines of a text
Lines(s) ==
    IF \E i \in 1..Len(s) : s[i] = "\n"
    THEN {SubSeq(s, 1, Min({i \in 1..Len(s) : s[i] = "\n"}) - 1)}
             \cup Lines(SubSeq(s, Min({i \in 1..Len(s) : s[i] = "\n"}) + 1, Len(s)))
    ELSE {s}

\* v is part of what follows a label of the key and a colon on one line
FromLabelLine(s, key, v) ==
    \E line \in Lines(s) :
        \E n \in 1..Len(patterns) :
            /\ <<patterns[n].key>> = key
            /\ \E a \in 1..Len(patterns[n].labels) : \E p \in 1..Len(line) :
                   /\ LabelAt(line, p, patterns[n].labels[a])
                   /\ Includes(SubSeq(line, p + Len(patterns[n].labels[a]) + 1,
                                      Len(line)), v)

\* C8: in the result of parseBusinessInfoFromText every key that is present
\* has a non-empty string value, taken from the text that follows the
\* field's label and colon on the label's own line.
C8_NonEmptySameLine ==
    /\ infoOut.k = "obj"
    /\ infoOut = parseBusinessInfoFromText(ocrResult)
    => \A i \in 1..Len(infoOut.p) :
           /\ infoOut.p[i][2].s # <<>>
           /\ FromLabelLine(ocrResult, infoOut.p[i][1], infoOut.p[i][2].s)

\* the occurrences in s of a single "{" ... "}" with no brace between them
BracePairs(s) ==
    {pr \in (1..Len(s)) \X (1..Len(s)) :
        /\ pr[1] + 1 < pr[2]
        /\ s[pr[1]] = "{"
        /\ s[pr[2]] = "}"
        /\ \A c \in (pr[1] + 1)..(pr[2] - 1) : s[c] \notin {"{", "}"}}

InnerName(s, pr) == Str(Trim(SubSeq(s, pr[1] + 1, pr[2] - 1)))

FirstOccurrence(s, name) ==
    Min({pr[1] : pr \in {q \in BracePairs(s) : InnerName(s, q) = name}})

NoDuplicates(list) ==
    \A m, n \in 1..Len(list) : m # n => list[m] # list[n]

\* the list and the boolean of an analysis agree
BooleanIsNonEmpty(a) == a.hasExistingPlaceholders <=> a.placeholders # <<>>

\* C9: the placeholders analyzeTemplate reports are the inner names of all
\* the single-brace placeholders of the content, without duplicates and in
\* order of first occurrence, and hasExistingPlaceholders is true exactly
\* when the list is non-empty (empty and false when the content has no
\* placeholder pattern).
C9_DistinctNamesInOrder ==
    templateAnalysis # Null =>
        /\ NoDuplicates(templateAnalysis.placeholders)
        /\ {templateAnalysis.placeholders[n] :
                n \in 1..Len(templateAnalysis.placeholders)}
               = {InnerName(templateAnalysis.content, pr) :
                      pr \in BracePairs(templateAnalysis.content)}
        /\ \A m, n \in 1..Len(templateAnalysis.placeholders) :
               m < n =>
                   FirstOccurrence(templateAnalysis.content,
                                   templateAnalysis.placeholders[m])
                       < FirstOccurrence(templateAnalysis.content,
                                         templateAnalysis.placeholders[n])
        /\ BooleanIsNonEmpty(templateAnalysis)
        /\ BracePairs(templateAnalysis.content) = {} =>
               /\ templateAnalysis.placeholders = <<>>
               /\ ~templateAnalysis.hasExistingPlaceholders

\* the parts of C9 that do not depend on what counts as a placeholder: the
\* list has no duplicates and the boolean says whether it is non-empty
C9_DistinctAndBoolean ==
    templateAnalysis # Null =>
        /\ NoDuplicates(templateAnalysis.placeholders)
        /\ BooleanIsNonEmpty(templateAnalysis)

\* C10: the strategy generateDocument runs agrees with the analysis of the
\* same template: the placeholder strategy if and only if
\* hasExistingPlaceholders, the heuristic pipeline if and only if not, and
\* one of the two in every call.
C10_StrategyAgreesWithAnalysis ==
    strategy \notin {"none", "idle"} /\ templateAnalysis # Null =>
        /\ strategy \in {"generateWithDocxtemplater", "generateWithSmartReplacement"}
        /\ strategy = "generateWithDocxtemplater"
               <=> templateAnalysis.hasExistingPlaceholders
        /\ strategy = "generateWithSmartReplacement"
               <=> ~templateAnalysis.hasExistingPlaceholders

\* the fiscal year of the k-th file, a file without one counting as year 0
FileYear(k) == YearOrZero([year |-> extractYearFromFileName(files[k].name)])

\* the keys of fields hold in sum the metrics of record
HoldsMetrics(sum, fields, record) ==
    \A f \in fields : f[1] \in DOMAIN sum /\ sum[f[1]] = record[f[2]]

\* totalAssetsEnd, totalLiabilitiesEnd, ownerEquityEnd and debtRatioEnd
PeriodEndFields ==
    {f \in EndFields : f[2] \notin {"currentRatio", "quickRatio"}}

GreatestYearAmong(k, among) ==
    k \in among /\ \A h \in among : FileYear(h) <= FileYear(k)

\* C20: getFinancialSummary returns its current-period fields from the
\* record of a parsed file of the greatest fiscal year and, when two or more
\* files were parsed, its Beginning fields from the record of a file of the
\* greatest year among the others; without parsed financial data it returns
\* an object with no field.
C20_SummaryPeriods ==
    [][summary' # summary =>
        /\ financialData = Null \/ OkFiles = {} => summary' = NoFields
        /\ financialData # Null /\ OkFiles # {} =>
               \E k \in OkFiles :
                   /\ GreatestYearAmong(k, OkFiles)
                   /\ HoldsMetrics(summary', PeriodEndFields,
                                   ParsedFile(files[k]).balanceSheet)
                   /\ HoldsMetrics(summary', CurrentFields,
                                   ParsedFile(files[k]).incomeStatement)
                   /\ OkFiles # {k} =>
                          \E h \in OkFiles \ {k} :
                              /\ GreatestYearAmong(h, OkFiles \ {k})
                              /\ HoldsMetrics(summary', BeginningFields,
                                              ParsedFile(files[h]).balanceSheet)]_vars

\* the file of 2023 is given before the file of 2021 and both are parsed: the
\* summary has the total assets of 2023 as current and the net profit of 2021
\* as last year's
C20_Witness ==
    /\ filesOut = "resolved"
    /\ summary # Pending
    /\ Len(files) = 2
    /\ FileYear(1) = 2023
    /\ FileYear(2) = 2021
    /\ {"totalAssetsEnd", "totalAssetsBeginning", "netProfitLastYear"}
           \subseteq DOMAIN summary
    /\ summary["totalAssetsEnd"] = Num(1000)
    /\ summary["totalAssetsBeginning"] = Undefined
    /\ summary["netProfitLastYear"] = Num(50)


\* C11: generateDocument never changes the template package passed to it:
\* before and after every call, returned or thrown, with any data, the
\* package's word/document.xml is the one it had at the start, so every call
\* starts from the same original (what a call writes goes to its clone).
C11_TemplatePackageUnchanged ==
    generated.k \in {"none", "threw", "returned"} => zips[TemplateZip] = original

\* a call has returned and its clone holds a document other than the original's
C11_Witness ==
    /\ generated.k = "returned"
    /\ Len(zips) = 2
    /\ zips[2] # original
    /\ generated.xml = zips[2].xml
    /\ documentData # DataOf({})

\* the three failures: no word/document.xml, no closing body tag in it, or
\* (placeholder strategy) a substitution that fails
NoBodyEnd == original.present /\ LastBodyEnd(original.xml) = 0

SubstitutionFails ==
    /\ original.present
    /\ hasPlaceholders(original.xml)
    /\ ~Render(original.xml, prepareDataForTemplate(documentData)).ok

\* C12: when the package has no word/document.xml, when the body's closing
\* tag is missing, or when placeholder substitution fails, generateDocument
\* throws and returns no document.
C12_FatalErrorsThrow ==
    generated.k \in {"threw", "returned"}
        => ((~original.present \/ NoBodyEnd \/ SubstitutionFails)
                => generated = Threw)

\* the two of the three failures that do throw
C12_MissingEntryOrFailedRenderThrows ==
    generated.k \in {"threw", "returned"}
        => ((~original.present \/ SubstitutionFails) => generated = Threw)

\* the markup and the text of xml that is not blank: its tokens other than
\* underscores and white space
NonBlankTokens(xml) == SelectSeq(xml, LAMBDA tok : tok \notin BlankChars)

RECURSIVE KeptInOrder(_, _, _, _)
\* the tokens of kept from i on are in xml from j on, in the same order
KeptInOrder(kept, i, xml, j) ==
    IF i > Len(kept) THEN TRUE
    ELSE IF j > Len(xml) THEN FALSE
    ELSE IF kept[i] = xml[j] THEN KeptInOrder(kept, i + 1, xml, j + 1)
    ELSE KeptInOrder(kept, i, xml, j + 1)

RECURSIVE TextRuns(_, _)
\* the texts of the runs of xml from i on: what stands between a <w:t> and
\* the </w:t> after it
TextRuns(xml, i) ==
    LET opens == {j \in i..Len(xml) : xml[j] = "<w:t>"}
        From(j) ==
            <<SubSeq(xml, j + 1, NextTag(xml, j + 1) - 1)>>
                \o TextRuns(xml, NextTag(xml, j + 1))
    IN  IF opens = {} THEN <<>> ELSE From(Min(opens))

\* the number of the run opened at token j
RunNumber(xml, j) == Cardinality({i \in 1..j : xml[i] = "<w:t>"})

TagsOf(xml) == SelectSeq(xml, LAMBDA tok : tok \in Tags)

\* the blanks of the patterns: an empty cell, underscores, a space
BlankTexts == {<<>>, <<"_">>, <<"_", "_">>, <<" ">>}

\* the runs after the passes of blank cells that follow, in the template, a
\* cell with the text label
BlankCellsAfter(label) ==
    {TextRuns(inlineXml, 1)[RunNumber(original.xml, p + Len(Cell(label)) + 3)] :
        p \in {q \in 1..Len(original.xml) :
                  \E blank \in BlankTexts :
                      /\ q + Len(Cell(label) \o Cell(blank)) - 1 <= Len(original.xml)
                      /\ SubSeq(original.xml, q,
                                q + Len(Cell(label) \o Cell(blank)) - 1)
                             = Cell(label) \o Cell(blank)}}

\* the runs after the passes of the template's runs with the text label, a
\* colon and a blank
BlankRunsAfterColon(label) ==
    {TextRuns(inlineXml, 1)[k] :
        k \in {j \in 1..Len(TextRuns(original.xml, 1)) :
                  \E colon \in Colons, blank \in BlankTexts \ {<<>>} :
                      TextRuns(original.xml, 1)[j] = label \o <<colon>> \o blank}}

\* C14: every label of a label map followed by a blank or underscore-only
\* cell, or by a colon and a blank or underscore run, whose field has a
\* non-empty value, has its blank replaced by that value after the passes
\* (stated for the calls that leave the tags of the markup as they were, so
\* that a run of the template and the run after the passes correspond).
C14_LabelledBlanksFilled ==
    (inlineXml # <<>> /\ TagsOf(inlineXml) = TagsOf(original.xml))
        => /\ \A n \in 1..Len(tableLabelMap) :
                  Truthy(Get(documentData, tableLabelMap[n].field))
                      => \A run \in BlankCellsAfter(tableLabelMap[n].label) :
                             run = escapeXml(StringOf(Get(documentData,
                                                          tableLabelMap[n].field)))
           /\ \A n \in 1..Len(colonLabelMap) :
                  Truthy(Get(documentData, colonLabelMap[n].field))
                      => \A run \in BlankRunsAfterColon(colonLabelMap[n].label) :
                             Includes(run, escapeXml(StringOf(Get(documentData,
                                                          colonLabelMap[n].field))))

\* what does hold, on the template of one label cell and one underscore
\* cell: the second cell holds the value after the passes
C14_FirstBlankCellFilled ==
    (inlineXml # <<>> /\ Truthy(Get(documentData, "companyName"))
        /\ original.xml
             = Body(<<Cell(<<"qi3", "ye", "ming", "cheng1">>) \o Cell(<<"_", "_">>)>>, TRUE))
        => TextRuns(inlineXml, 1)[2]
             = escapeXml(StringOf(Get(documentData, "companyName")))

\* the places of xml where section stands
PlacesOf(section, xml) ==
    {p \in 1..(Len(xml) - Len(section) + 1) :
        SubSeq(xml, p, p + Len(section) - 1) = section}

\* section stands in xml once, right before the last </w:body>, and xml
\* without it is the markup the inline passes left
InsertedOnce(section, xml) ==
    /\ Cardinality(PlacesOf(section, xml)) = 1
    /\ \A p \in PlacesOf(section, xml) :
           /\ p + Len(section) = LastBodyEnd(xml)
           /\ SubSeq(xml, 1, p - 1) \o SubSeq(xml, LastBodyEnd(xml), Len(xml))
                  = inlineXml

\* C15: in every heuristic generation call that returns, the appendix stands in
\* the returned markup exactly once, immediately before the body's closing
\* tag, and what is around it is the markup the three inline passes left.
C15_AppendixOnceBeforeBodyEnd ==
    (generated.k = "returned" /\ inlineXml # <<>>)
        => \A section \in {createFilledContentSection(documentData)} :
               InsertedOnce(section, generated.xml)

\* the same for the templates whose body has its closing tag
C15_AppendixOnceInClosedBody ==
    (generated.k = "returned" /\ inlineXml # <<>>
        /\ LastBodyEnd(original.xml) # 0)
        => \A section \in {createFilledContentSection(documentData)} :
               InsertedOnce(section, generated.xml)

\* the company, financial and credit fields the appendix lists, with their
\* labels and units
ListedItems ==
    companyInfo \o financialInfo \o creditInfo
        \o <<[label |-> SubSeq(BusinessScopeLabel, 1, Len(BusinessScopeLabel) - 1),
              field |-> "businessScope", unit |-> <<>>]>>

\* C16: in a heuristic call that returns a document whose template has its
\* closing body tag, every listed company, financial and credit field the
\* Document Context holds a non-empty value for has its paragraph, label, colon,
\* value and unit, in the returned markup, whatever the other fields hold.
C16_EveryListedFactVisible ==
    (generated.k = "returned" /\ inlineXml # <<>>
        /\ LastBodyEnd(original.xml) # 0)
        => \A n \in 1..Len(ListedItems) :
               Truthy(Get(documentData, ListedItems[n].field))
                   => Includes(generated.xml,
                               Plain(ListedItems[n].label \o <<"wcolon">>
                                         \o StringOf(Get(documentData,
                                                         ListedItems[n].field))
                                         \o ListedItems[n].unit))

\* the fields that open their sections are always listed
C16_GateFieldsVisible ==
    (generated.k = "returned" /\ inlineXml # <<>>
        /\ LastBodyEnd(original.xml) # 0)
        => \A f \in {"companyName", "legalRep"} :
               Truthy(Get(documentData, f))
                   => \E n \in 1..Len(companyInfo) :
                          /\ companyInfo[n].field = f
                          /\ Includes(generated.xml,
                                      Plain(companyInfo[n].label \o <<"wcolon">>
                                                \o StringOf(Get(documentData, f))
                                                \o companyInfo[n].unit))

\* what the returned markup holds between the markup the inline passes left
\* up to its closing body tag, and that tag
AppendixOf(xml) ==
    SubSeq(xml, LastBodyEnd(inlineXml), LastBodyEnd(xml) - 1)

RECURSIVE ParagraphsOf(_, _)
\* the paragraphs of xml from i on: whether the run is bold, and its text
ParagraphsOf(xml, i) ==
    LET opens == {j \in i..Len(xml) : xml[j] = "<w:p>"}
        End(j) == Min({k \in j..Len(xml) : xml[k] = "</w:p>"})
        TextOfPart(part) ==
            IF \E k \in 1..Len(part) : part[k] = "<w:t>"
            THEN SubSeq(part,
                        Min({k \in 1..Len(part) : part[k] = "<w:t>"}) + 1,
                        Min({k \in 1..Len(part) : part[k] = "</w:t>"}) - 1)
            ELSE <<>>
        Paragraph(part) ==
            [bold |-> \E k \in 1..Len(part) : part[k] = "<w:b/>",
             text |-> TextOfPart(part)]
        From(j) ==
            <<Paragraph(SubSeq(xml, j, End(j)))>> \o ParagraphsOf(xml, End(j) + 1)
    IN  IF opens = {} THEN <<>> ELSE From(Min(opens))

NarrativeTitles == {textSections[n].title : n \in 1..Len(textSections)}

\* the narrative fields with content, in the fixed order
FilledNarratives ==
    SelectSeq(textSections, LAMBDA sec : Truthy(Get(documentData, sec.field)))

\* the lines of a narrative field that are not blank, as they are to stand in
\* their paragraphs
ShownLines(field) ==
    LET kept == SelectSeq(Split(Get(documentData, field).s, "\n"),
                          LAMBDA line : \E i \in 1..Len(line) :
                                            line[i] \notin XmlSpace)
    IN  [n \in 1..Len(kept) |-> escapeXml(<<" ", " ", " ", " ">> \o kept[n])]

\* in the paragraphs ps: the narrative headings are those of the fields with
\* content, in the fixed order; each is followed by an empty paragraph, one
\* paragraph per line that is not blank and an empty paragraph; and they
\* come after the headings of the three sections
NarrativesListed(ps) ==
    /\ SelectSeq([n \in 1..Len(ps) |-> IF ps[n].bold THEN ps[n].text ELSE <<>>],
                 LAMBDA text : text \in NarrativeTitles)
           = [n \in 1..Len(FilledNarratives) |-> FilledNarratives[n].title]
    /\ \A n \in 1..Len(ps) : \A m \in 1..Len(textSections) :
           (ps[n].bold /\ ps[n].text = textSections[m].title)
               => /\ n + 2 + Len(ShownLines(textSections[m].field)) <= Len(ps)
                  /\ ps[n + 1] = [bold |-> FALSE, text |-> <<>>]
                  /\ \A l \in 1..Len(ShownLines(textSections[m].field)) :
                         ps[n + 1 + l]
                             = [bold |-> FALSE,
                                text |-> ShownLines(textSections[m].field)[l]]
                  /\ ps[n + 2 + Len(ShownLines(textSections[m].field))]
                         = [bold |-> FALSE, text |-> <<>>]
    /\ \A n \in 1..Len(ps) : \A k \in 1..Len(ps) :
           (/\ ps[n].bold /\ ps[n].text \in NarrativeTitles
            /\ ps[k].bold /\ ps[k].text \in {CompanyTitle, FinancialTitle, CreditTitle})
               => k < n

\* C17: the appendix holds, for each of the ten narrative fields with content,
\* its heading followed by one paragraph per line that is not blank; the
\* headings stand in the fixed order, after the company, financial and credit
\* sections; a narrative field without content has no heading.
C17_NarrativesUnderHeadings ==
    (generated.k = "returned" /\ inlineXml # <<>> /\ LastBodyEnd(inlineXml) # 0)
        => \A ps \in {ParagraphsOf(AppendixOf(generated.xml), 1)} :
               NarrativesListed(ps)

\* an appendix with the company section and a narrative of three lines, one
\* of them blank
C17_Witness ==
    /\ generated.k = "returned"
    /\ inlineXml # <<>>
    /\ LastBodyEnd(inlineXml) # 0
    /\ Truthy(Get(documentData, "companyName"))
    /\ Get(documentData, "basicSituation") = Str(<<"a", "\n", " ", "\n", "b">>)
    /\ Includes(generated.xml, Heading(CompanyTitle))
    /\ Includes(generated.xml, Plain(<<" ", " ", " ", " ", "b">>))

\* two narratives in one appendix
C17_TwoNarratives ==
    /\ generated.k = "returned"
    /\ inlineXml # <<>>
    /\ LastBodyEnd(inlineXml) # 0
    /\ Len(FilledNarratives) = 2

\* the five entities escapeXml writes, without their &
Entities ==
    {<<"a", "m", "p", ";">>, <<"l", "t", ";">>, <<"g", "t", ";">>,
     <<"q", "u", "o", "t", ";">>, <<"a", "p", "o", "s", ";">>}

\* no reserved character stands in the text of xml but an & that begins an
\* entity (a tag is one token, so a < or > in xml is a character of text)
NoRawReserved(xml) ==
    \A i \in 1..Len(xml) :
        /\ xml[i] \notin {"<", ">", "\"", "'"}
        /\ xml[i] = "&"
               => \E ent \in Entities :
                      /\ i + Len(ent) <= Len(xml)
                      /\ SubSeq(xml, i + 1, i + Len(ent)) = ent

\* C18: what the heuristic strategy puts into the markup, in the three inline
\* passes and in the appendix, is escaped: in the markup after the passes and
\* in the returned markup no & < > " ' of a context value stands unescaped
\* (the templates hold none of the five characters themselves).
C18_InsertedTextEscaped ==
    inlineXml # <<>>
        => /\ NoRawReserved(inlineXml)
           /\ generated.k = "returned" => NoRawReserved(generated.xml)

\* a value with < and & went into a cell and into the appendix
C18_Witness ==
    /\ generated.k = "returned"
    /\ Get(documentData, "companyName") = Str(<<"<", "&">>)
    /\ Includes(inlineXml,
                Cell(<<"&", "l", "t", ";", "&", "a", "m", "p", ";">>))
    /\ Includes(generated.xml,
                <<"<w:t>", "qi3", "ye", "ming", "cheng1", "wcolon",
                  "&", "l", "t", ";", "&", "a", "m", "p", ";", "</w:t>">>)

\* the placeholders of xml are all of the form { name }, three tokens
SimpleTagsOnly(xml) ==
    /\ \A i \in 1..Len(xml) :
           xml[i] = "{" => (TokenAt(xml, i + 2) = "}" /\ TokenAt(xml, i + 1) # "}")
    /\ \A i \in 1..Len(xml) : xml[i] = "}" => TokenAt(xml, i - 2) = "{"

\* the names in the placeholders of xml
TagNames(xml) == {xml[i + 1] : i \in {j \in 1..Len(xml) : xml[j] = "{"}}

RECURSIVE WithoutTags(_, _)
\* xml from i on with every placeholder taken out
WithoutTags(xml, i) ==
    IF i > Len(xml) THEN <<>>
    ELSE IF xml[i] = "{" THEN WithoutTags(xml, i + 3)
    ELSE <<xml[i]>> \o WithoutTags(xml, i + 1)

\* C19: in the placeholder strategy a placeholder whose name is absent from
\* the Document Context, or whose value there is null or undefined, renders
\* as the empty string, and the call does not fail because of it.
C19_MissingRendersEmpty ==
    (/\ generated.k \in {"threw", "returned"}
     /\ original.present
     /\ hasPlaceholders(original.xml)
     /\ SimpleTagsOnly(original.xml)
     /\ \A name \in TagNames(original.xml) :
            Get(documentData, name) \in {Null, Undefined})
        => generated = Returned(WithoutTags(original.xml, 1))

\* the same for the names the Document Context holds null for
C19_NullRendersEmpty ==
    (/\ generated.k \in {"threw", "returned"}
     /\ original.present
     /\ hasPlaceholders(original.xml)
     /\ SimpleTagsOnly(original.xml)
     /\ \A name \in TagNames(original.xml) : Get(documentData, name) = Null
     /\ \A name \in TagNames(original.xml) : name \in DOMAIN documentData)
        => generated = Returned(WithoutTags(original.xml, 1))

\* the cell parses to a number other than 0
NonZeroNumber(cell) == parseNumber(cell) \notin {Null, Num(0)}

\* the value the two searches are to give for a label in cell (i, col) of
\* sheetData: the first non-zero number to the right in the row, or else the
\* first one of the row below from its first column, or else none
ValueForLabel(sheetData, i, col) ==
    LET right == {j \in (col + 1)..Len(sheetData[i]) :
                     NonZeroNumber(sheetData[i][j])}
        below == IF i + 1 > Len(sheetData) THEN {}
                 ELSE {j \in 1..Len(sheetData[i + 1]) :
                          NonZeroNumber(sheetData[i + 1][j])}
    IN  IF right # {} THEN parseNumber(sheetData[i][Min(right)])
        ELSE IF below # {} THEN parseNumber(sheetData[i + 1][Min(below)])
        ELSE Undefined

\* the keys of terms that have a label in text
LabelledKeys(terms, text) ==
    {terms[t].key : t \in {n \in 1..Len(terms) : Includes(text, terms[n].term)}}

\* rec, the record before the cell (i, col) is scanned, and after, the record
\* after: every key not set in rec with a label in the cell has the value of
\* the two searches, or stays unset when they find none
SearchedKeys(rec, after, terms, sheetData, i, col) ==
    \A key \in LabelledKeys(terms, Trim(TextOf(sheetData[i][col]))) :
        ~Truthy(rec[key]) => after[key] = ValueForLabel(sheetData, i, col)

\* C21: when a cell holds a label whose key is not set, the key gets the
\* first cell to the right in the row that parses to a non-zero number; only
\* when there is none, the first such cell of the next row from its first
\* column; cells that parse to 0 or to no number are skipped, and when
\* neither search finds a value the key stays unset.
C21_SearchRightThenBelow ==
    [][(/\ cursor.phase = "scan"
        /\ cursor'.sheet = cursor.sheet
        /\ cursor'.cell = cursor.cell + 1)
          => \A c \in {CurrentCells[cursor.cell]} :
                 /\ SearchedKeys(result.balanceSheet, result'.balanceSheet,
                                 balanceSheetTerms, workbook[cursor.sheet],
                                 c.i, c.col)
                 /\ SearchedKeys(result.incomeStatement, result'.incomeStatement,
                                 incomeTerms, workbook[cursor.sheet],
                                 c.i, c.col)]_vars

\* a label with nothing to its right has got the first number of the row
\* below, and in that row a cell that parses to 0 was passed over
C21_Witness ==
    /\ cursor.phase = "scan"
    /\ cursor.sheet = 1
    /\ cursor.cell = 2
    /\ Len(workbook[1]) >= 2
    /\ workbook[1][1] = <<Label(<<"fu", "zhai", "zong", "ji">>)>>
    /\ workbook[1][2] = <<Label(<<"fu", "zhai", "he", "ji">>), Num(0), Num(600)>>
    /\ result.balanceSheet["totalLiabilities"] = Num(600)

\* some character of text is neither an underscore nor white space
HasOwnText(text) == \E i \in 1..Len(text) : text[i] \notin BlankChars

\* in the runs of the template (each cell has one run): every cell with a
\* label of a field that has a value is immediately followed by a cell with
\* text of its own
LabelCellsFollowedByText(runs) ==
    \A n \in 1..Len(tableLabelMap) :
        Truthy(Get(documentData, tableLabelMap[n].field))
            => \A k \in 1..Len(runs) :
                   Includes(runs[k], tableLabelMap[n].label)
                       => (k < Len(runs) /\ HasOwnText(runs[k + 1]))

\* C22: the table-cell fill writes a value only into the cell that
\* immediately follows the label's cell: when that cell holds text of its
\* own, nothing is changed for the label, no later cell and no later blank
\* run gets the value.  Stated for the templates without a colon, which the
\* two other passes leave as they are: when every label cell of a field with
\* a value is followed by a cell with text, the markup is unchanged.
C22_OnlyTheNextCell ==
    (/\ inlineXml # <<>>
     /\ \A i \in 1..Len(original.xml) : original.xml[i] \notin Colons
     /\ LabelCellsFollowedByText(TextRuns(original.xml, 1)))
        => inlineXml = original.xml

\* C23: the heuristic pipeline is idempotent: the three inline passes and the
\* appendix applied, with the same Document Context, to the markup a
\* heuristic call returned give that markup again.
C23_PipelineIdempotent ==
    (generated.k = "returned" /\ inlineXml # <<>>)
        => appendFilledContent(InlinePasses(generated.xml, documentData),
                               documentData)
               = generated.xml

\* the runs of the template that hold label, a colon and underscores only
UnderscoreRunsAfterColon(runs, label) ==
    {k \in 1..Len(runs) :
        \E colon \in Colons, blank \in {<<"_">>, <<"_", "_">>} :
            runs[k] = label \o <<colon>> \o blank}

\* the run k of the template holds, after the passes, label, the colon it had
\* and text
FilledWith(k, label, text) ==
    /\ TagsOf(inlineXml) = TagsOf(original.xml)
    /\ \E colon \in Colons :
           TextRuns(inlineXml, 1)[k] = label \o <<colon>> \o text

\* C24: when the colon-label pass or the trailing-underscore pass fills a
\* blank, what stands in place of the blank run is exactly the escaped
\* value, also for a value with a $ before a digit or an &, and nothing else
\* of the matched markup is duplicated or dropped.
C24_BlankReplacedByEscapedValue ==
    inlineXml # <<>>
        => \A n \in 1..Len(colonLabelMap) :
               Truthy(Get(documentData, colonLabelMap[n].field))
                   => \A k \in UnderscoreRunsAfterColon(TextRuns(original.xml, 1),
                                                        colonLabelMap[n].label) :
                          FilledWith(k, colonLabelMap[n].label,
                                     escapeXml(StringOf(Get(documentData,
                                                            colonLabelMap[n].field))))

\* the same for the values without a $
C24_ValuesWithoutDollar ==
    inlineXml # <<>>
        => \A n \in 1..Len(colonLabelMap) :
               (/\ Truthy(Get(documentData, colonLabelMap[n].field))
                /\ \A f \in DOMAIN documentData :
                       documentData[f].k = "str"
                           => \A i \in 1..Len(documentData[f].s) :
                                  documentData[f].s[i] # "$")
                   => \A k \in UnderscoreRunsAfterColon(TextRuns(original.xml, 1),
                                                        colonLabelMap[n].label) :
                          FilledWith(k, colonLabelMap[n].label,
                                     escapeXml(StringOf(Get(documentData,
                                                            colonLabelMap[n].field))))

\* C25: once the upload handlers, removeFile calls and restart calls made so
\* far have run to their end (no OCR call is awaited), the button that leads
\* to step 2 is enabled if and only if a template file, at least one
\* financial file and a business file are recorded in UIController.files.
C25_Step2EnabledIffAllRecorded ==
    ocrCalls = {} => (~toStep2Disabled <=> allFilesUploaded(uiFiles))

\* C26: a response of callOCR changes the Business Profile fileParser holds
\* only to the profile of the file that is recorded in
\* UIController.files.business at that moment: the response of an earlier
\* upload never replaces the profile of a later one, and never fills the
\* profile in again after the files were reset.
C26_NoLateProfile ==
    [][(parser'.businessInfo # parser.businessInfo /\ parser'.businessInfo # Null)
           => /\ uiFiles.business # Null
              /\ parser'.businessInfo = ParsedFrom(uiFiles.business.upload)]_vars

\* C27: what downloadReport hands to saveAs is the document of the most recent
\* generateReport call: after a generateReport call that failed, and after
\* restart(), it delivers no document until a later generateReport call has
\* succeeded.
C27_DownloadsLatestReport ==
    delivered.k = "blob" => delivered = lastReport

\* the entries of a collection of the result that are equal to entry
Places(entries, entry) == {n \in 1..Len(entries) : entries[n] = entry}

\* C28: in every result of parseExcelFiles, balanceSheet and incomeStatement
\* each hold exactly one entry per successfully parsed file, the entry of a
\* file from which no metric was extracted included; so balanceSheet is not
\* empty when rawData is not, and getFinancialSummary never builds the summary
\* from rawData.
C28_OneEntryPerParsedFile ==
    /\ filesOut = "resolved" =>
           /\ Len(financialData.balanceSheet) = Cardinality(OkFiles)
           /\ Len(financialData.incomeStatement) = Cardinality(OkFiles)
           /\ \A k \in OkFiles :
                  /\ Places(financialData.balanceSheet,
                            BalanceEntry(ParsedFile(files[k]))) # {}
                  /\ Places(financialData.incomeStatement,
                            IncomeEntry(ParsedFile(files[k]))) # {}
           /\ DOMAIN financialData.rawData # {}
                  => financialData.balanceSheet # <<>>
    /\ financialData # Null =>
           /\ ~(Len(financialData.balanceSheet) = 0
                    /\ DOMAIN financialData.rawData # {})
           /\ getFinancialSummary(financialData)
                  = SummaryOfBalance(financialData.balanceSheet)
                        @@ SummaryOfIncome(financialData.incomeStatement)

\* one file with a year in its name and only the net profit in its sheet was
\* parsed: the balance sheet entry it gave has no metric, and the summary was
\* taken from the two collections
C28_Witness ==
    /\ filesOut = "resolved"
    /\ summary # Pending
    /\ Len(files) = 1
    /\ files[1].fate = "ok"
    /\ FileYear(1) = 2023
    /\ DOMAIN financialData.rawData = {2023}
    /\ Len(financialData.balanceSheet) = 1
    /\ \A key \in DOMAIN financialData.balanceSheet[1].metrics :
           financialData.balanceSheet[1].metrics[key] = Undefined
    /\ "netProfitCurrent" \in DOMAIN summary
    /\ summary["netProfitCurrent"] = Num(50)

\* the files that were parsed name pairwise different years
DistinctYears ==
    \A k, h \in OkFiles : k # h => FileYear(k) # FileYear(h)

\* C29: in every summary getFinancialSummary returns for parsed files of
\* pairwise different years, the fields with the suffix LastYear, those read
\* from the balance sheet entries and those read from the income statement
\* entries, are all taken from the record of one and the same file, and so of
\* one fiscal year.
C29_LastYearFromOneYear ==
    (summary # Pending /\ financialData # Null /\ DistinctYears
         /\ "totalAssetsLastYear" \in DOMAIN summary
         /\ "netProfitLastYear" \in DOMAIN summary)
        => \E k \in OkFiles :
               /\ HoldsMetrics(summary, LastYearFields,
                               ParsedFile(files[k]).balanceSheet)
               /\ HoldsMetrics(summary, IncomeLastYearFields,
                               ParsedFile(files[k]).incomeStatement)

\* with at most two parsed files the LastYear fields are those of one file
C29_UpToTwoFiles ==
    (summary # Pending /\ financialData # Null /\ DistinctYears
         /\ Cardinality(OkFiles) <= 2
         /\ "totalAssetsLastYear" \in DOMAIN summary
         /\ "netProfitLastYear" \in DOMAIN summary)
        => \E k \in OkFiles :
               /\ HoldsMetrics(summary, LastYearFields,
                               ParsedFile(files[k]).balanceSheet)
               /\ HoldsMetrics(summary, IncomeLastYearFields,
                               ParsedFile(files[k]).incomeStatement)

\* the place of a field in the fixed order
FieldNumber(field) == CHOOSE n \in 1..Len(contentFields) : contentFields[n] = field

\* the keys of a results object, in the order they were added
KeysOf(rs) == [i \in 1..Len(rs) |-> rs[i][1]]

\* C30: generateAllContent sends the requests of the ten narrative fields one
\* after another in the fixed order of the fields, never with two requests in
\* flight; its promise never rejects: a field whose request fails, or cannot
\* be sent, gets the empty string and the fields after it are still taken, so
\* the object it resolves with has all ten keys.
C30_SequentialAndComplete ==
    /\ Cardinality(inFlight) <= 1
    /\ inFlight # {} => inFlight = {contentFields[fieldAt]} /\ waiting = "fetch"
    /\ \A i, j \in 1..Len(requested) :
           i < j => FieldNumber(requested[i]) < FieldNumber(requested[j])
    /\ KeysOf(results) = SubSeq(contentFields, 1, Len(results))
    /\ \A i \in 1..Len(results) :
           (\A j \in 1..Len(requested) : requested[j] # results[i][1])
               => results[i][2] = <<>>
    /\ allOut # Rejected
    /\ allOut # Pending => /\ allOut.k = "resolved"
                           /\ KeysOf(allOut.val) = contentFields
                           /\ inFlight = {}

\* the call has resolved: the request of the first field failed, the second
\* field was answered, the third could not be sent, and all ten keys are there
C30_Witness ==
    /\ allOut # Pending
    /\ allOut.k = "resolved"
    /\ Len(allOut.val) = Len(contentFields)
    /\ Len(requested) >= 2
    /\ requested[1] = "basicSituation"
    /\ requested[2] = "controllerSituation"
    /\ \A j \in 1..Len(requested) : requested[j] # "businessStatus"
    /\ allOut.val[1] = <<"basicSituation", <<>>>>
    /\ allOut.val[2] = <<"controllerSituation", <<"A">>>>
    /\ allOut.val[3] = <<"businessStatus", <<>>>>

=============================================================================
